---------------------------- MODULE WorkflowProofs ----------------------------
(***************************************************************************)
(* What the workflows above the ledger are promised, for any number of     *)
(* sessions, failures and changes: what a checkpoint was taught            *)
(* (TeachingLedger), which merge the last build heals (FiveBuild), the     *)
(* settings that jobs are leased with (LabSettings), the images that are   *)
(* selected for a curriculum (LessonAcquisition) and for words (WordLoop), *)
(* who trains a branch (CortexBranch), what a workflow of images may begin *)
(* and pack (VisualWorkflow), and the images that are made for the slots   *)
(* words leave empty (FluxSpecialist).                                     *)
(*                                                                         *)
(* The components share nothing: each theorem is about one of them, and    *)
(* the constants and variables they have by the same name are meant one at *)
(* a time.                                                                 *)
(***************************************************************************)
EXTENDS Integers, Sequences, FiniteSets, SequenceTheorems, FiniteSetTheorems, WellFoundedInduction, TLAPS

CONSTANTS Sessions, Lesson, Final, Sources, Seeded, MaxTrouble,
          Default, Entered, Jobs, MaxRuns, MaxChanges,
          Items, Assets, Registered, Coco, MaxLists, MaxPasses,
          Cand, Cascade, Slots, YieldStart, MaxTries, MaxErrors,
          N, Materials, Prefixes, Clients, MaxWorkflows,
          Seeds, Cohort, Captions, Exact, PackLimit, Budget, Shadow, Coordinators, MaxFailures,
          Concept, Route, Cap, MaxCycles, Null

VARIABLES
    campaign, branch, knows, certificate, plan, pipe, trouble,
    record, flow, job, visual, held, step,
    config, api, latest, active, pending, runs, pipeline, form, reader, changes,
    status, decision, shortlist, proposal, passes, ledger, asked, lists,
    state, queue, tries, worker, proc, image, history,
    workflows, touched, bound, retired, desired,
    linked, usable, incident, block, hub, failures,
    ctl, decisions, pixels, rows, unit, stage

-----------------------------------------------------------------------------
(* What a checkpoint was taught.                                           *)

Teaching == INSTANCE TeachingLedger

(* A plan is admitted on top of what its parent knows, and no knowledge is *)
(* ever taken back: that holds of every plan, whatever becomes of its job. *)
OnTopOf(s, p) ==
  \A i \in DOMAIN Lesson[s].order : Lesson[s].order[i].needs \subseteq knows[p] \cup Teaching!TaughtBefore(s, i)

TaughtInv ==
  /\ DOMAIN plan = Sessions /\ DOMAIN knows = Teaching!Checkpoints
  /\ \A s \in Sessions :
        /\ plan[s] = [parent |-> plan[s].parent, linked |-> plan[s].linked, job |-> plan[s].job]
        /\ plan[s].job # "none" => plan[s].parent \in Teaching!Checkpoints /\ OnTopOf(s, plan[s].parent)

LEMMA KnowledgeStays ==
  ASSUME TaughtInv, DOMAIN knows' = Teaching!Checkpoints,
         \A c \in Teaching!Checkpoints : knows[c] \subseteq knows'[c], UNCHANGED plan
  PROVE  TaughtInv'
<1>1. ASSUME NEW s \in Sessions, NEW p \in Teaching!Checkpoints, OnTopOf(s, p) PROVE OnTopOf(s, p)'
  BY <1>1 DEF OnTopOf, Teaching!TaughtBefore
<1> QED
  BY <1>1 DEF TaughtInv, Teaching!Checkpoints

LEMMA TaughtStep ==
  ASSUME TaughtInv, [Teaching!Next]_(Teaching!vars) PROVE TaughtInv'
(* Whatever leaves the plans as they are adds knowledge, if anything.      *)
<1>1. CASE UNCHANGED plan /\ UNCHANGED knows
  BY <1>1, KnowledgeStays DEF TaughtInv
<1>2. ASSUME UNCHANGED plan, NEW c, NEW more, knows' = [knows EXCEPT ![c] = @ \cup more] PROVE TaughtInv'
  BY <1>2, KnowledgeStays DEF TaughtInv
<1>3. CASE Teaching!Reconcile \/ Teaching!InheritMerged \/ (\E c \in Teaching!Checkpoints, k \in Seeded : Teaching!Seed(c, k))
  BY <1>2, <1>3 DEF Teaching!Reconcile, Teaching!InheritMerged, Teaching!Seed, Teaching!MergeJob
<1>4. CASE \/ Teaching!CreateCampaign \/ Teaching!CloseCampaign
           \/ Teaching!CreateMerge \/ Teaching!FinishMerge \/ Teaching!BindMerge \/ Teaching!CrashBetween
           \/ Teaching!Decide("none", "queued") \/ Teaching!Decide("queued", "executed")
           \/ Teaching!SwitchPipeline("running") \/ Teaching!SwitchPipeline("paused")
  BY <1>1, <1>4 DEF Teaching!CreateCampaign, Teaching!CloseCampaign, Teaching!CreateMerge, Teaching!FinishMerge,
     Teaching!BindMerge, Teaching!CrashBetween, Teaching!MergeJob, Teaching!Decide, Teaching!SwitchPipeline
<1>5. ASSUME NEW b \in Teaching!Branches,
             \/ Teaching!AskToAuthorize(b) \/ Teaching!Authorize(b) \/ Teaching!FinishWorkflow(b)
             \/ Teaching!AskEvaluation(b) \/ Teaching!CreateEvaluation(b) \/ Teaching!FinishEvaluation(b)
      PROVE  TaughtInv'
  BY <1>1, <1>5 DEF Teaching!AskToAuthorize, Teaching!Authorize, Teaching!FinishWorkflow, Teaching!AskEvaluation,
     Teaching!CreateEvaluation, Teaching!FinishEvaluation
<1>6. ASSUME NEW s \in Sessions, NEW p \in Teaching!Checkpoints, Teaching!Certify(s, p) PROVE TaughtInv'
  BY <1>1, <1>6 DEF Teaching!Certify
(* The plan is admitted.                                                   *)
<1>7. ASSUME NEW s \in Sessions, NEW tied \in BOOLEAN, Teaching!Admit(s, tied) PROVE TaughtInv'
  <2> DEFINE p == certificate[s].parent
  <2>1. /\ plan' = [plan EXCEPT ![s] = [parent |-> p, linked |-> tied, job |-> "queued"]]
        /\ knows' = knows /\ Teaching!Plannable(s, p)
    BY <1>7 DEF Teaching!Admit
  <2>2. p \in Teaching!Checkpoints /\ OnTopOf(s, p)
    <3>1. Teaching!Exists(p) /\ Teaching!InOrder(s, p)
      BY <2>1 DEF Teaching!Plannable
    <3> HIDE DEF p
    <3>2. p \in Teaching!Checkpoints
      BY <3>1 DEF Teaching!Exists, Teaching!Checkpoints
    <3>3. OnTopOf(s, p)
      BY <3>1 DEF Teaching!InOrder, Teaching!Available, OnTopOf
    <3> QED
      BY <3>2, <3>3
  <2> HIDE DEF p
  <2>3. \A t \in Sessions, q \in Teaching!Checkpoints : OnTopOf(t, q)' <=> OnTopOf(t, q)
    BY <2>1 DEF OnTopOf, Teaching!TaughtBefore
  <2>4. \A t \in Sessions : plan'[t] = IF t = s THEN [parent |-> p, linked |-> tied, job |-> "queued"] ELSE plan[t]
    BY <2>1 DEF TaughtInv
  <2>5. ASSUME NEW t \in Sessions
        PROVE  /\ plan'[t] = [parent |-> plan'[t].parent, linked |-> plan'[t].linked, job |-> plan'[t].job]
               /\ plan'[t].job # "none" => plan'[t].parent \in Teaching!Checkpoints /\ OnTopOf(t, plan[t].parent)'
    <3>1. CASE t = s
      <4>1. plan'[t] = [parent |-> p, linked |-> tied, job |-> "queued"]
        BY <2>4, <3>1
      <4> QED
        BY <2>2, <2>3, <3>1, <4>1
    <3>2. CASE t # s
      <4>1. plan'[t] = plan[t]
        BY <2>4, <3>2
      <4> QED
        BY <2>3, <4>1 DEF TaughtInv
    <3> QED
      BY <3>1, <3>2
  <2>6. DOMAIN plan' = Sessions /\ DOMAIN knows' = Teaching!Checkpoints /\ Teaching!Checkpoints' = Teaching!Checkpoints
    BY <2>1 DEF TaughtInv, Teaching!Checkpoints
  <2> QED
    BY <2>5, <2>6 DEF TaughtInv
(* Its job moves on.                                                       *)
<1>8. ASSUME NEW s \in Sessions, NEW now, plan[s].job # "none", plan' = [plan EXCEPT ![s].job = now],
             DOMAIN knows' = Teaching!Checkpoints, \A c \in Teaching!Checkpoints : knows[c] \subseteq knows'[c]
      PROVE  TaughtInv'
  <2>1. \A t \in Sessions, q \in Teaching!Checkpoints : OnTopOf(t, q) => OnTopOf(t, q)'
    BY <1>8 DEF OnTopOf, Teaching!TaughtBefore
  <2>2. \A t \in Sessions : /\ plan'[t] = [parent |-> plan'[t].parent, linked |-> plan'[t].linked, job |-> plan'[t].job]
                            /\ plan'[t].parent = plan[t].parent
                            /\ plan'[t].job # "none" => plan[t].job # "none"
    BY <1>8 DEF TaughtInv
  <2> QED
    BY <1>8, <2>1, <2>2 DEF TaughtInv, Teaching!Checkpoints
<1>9. ASSUME NEW s \in Sessions,
             \/ Teaching!Lease(s) \/ Teaching!Fail(s) \/ Teaching!RetryAfterRepair(s) \/ Teaching!Cancel(s)
      PROVE  TaughtInv'
  BY <1>8, <1>9 DEF Teaching!Lease, Teaching!Fail, Teaching!RetryAfterRepair, Teaching!Cancel, Teaching!Live, TaughtInv
<1>10. ASSUME NEW s \in Sessions, Teaching!Finish(s) PROVE TaughtInv'
  BY <1>8, <1>10 DEF Teaching!Finish, TaughtInv
<1>11. CASE UNCHANGED Teaching!vars
  BY <1>1, <1>11 DEF Teaching!vars
<1> QED
  BY <1>3, <1>4, <1>5, <1>6, <1>7, <1>9, <1>10, <1>11 DEF Teaching!Next

(* Every concept is taught on top of the concepts it depends on: whatever  *)
(* was seeded, merged, retried or trained beside it, the parent that a     *)
(* completed session trained from has each of them on record, or the       *)
(* session taught it before; for any campaign and any recipe.              *)
THEOREM TaughtCorrect == Teaching!Spec => []Teaching!TaughtOnWhatIsKnown
<1>1. Teaching!Init => TaughtInv
  BY DEF Teaching!Init, TaughtInv
<1>2. TaughtInv /\ [Teaching!Next]_(Teaching!vars) => TaughtInv'
  BY TaughtStep
<1>3. TaughtInv => Teaching!TaughtOnWhatIsKnown
  BY DEF TaughtInv, OnTopOf, Teaching!TaughtOnWhatIsKnown, Teaching!Completed
<1> QED
  BY <1>1, <1>2, <1>3, PTL DEF Teaching!Spec

-----------------------------------------------------------------------------
(* The settings of a job.                                                  *)

Settings == INSTANCE LabSettings

(* Every configuration that is ever active has valid limits, and so does   *)
(* every draft that was saved, wherever it is kept; what a process makes   *)
(* of a draft for another configuration is valid because it falls back to  *)
(* limits that are.                                                        *)
ValidDefaults == \A c \in Settings!Configs : Settings!Valid(Default[c])

Sound(draft) == draft # Null => draft.base \in Settings!Configs /\ Settings!Valid(draft.limits)

SettingsInv ==
  /\ config \in Settings!Configs /\ api \in Settings!Configs
  /\ Sound(latest) /\ Sound(active) /\ Sound(reader)
  /\ pending # Null => Sound(pending.draft)
  /\ form.at = "saved" => Sound(form.draft)
  /\ DOMAIN job = Jobs
  /\ \A j \in Jobs : job[j] = [at |-> job[j].at, draft |-> job[j].draft] /\ Sound(job[j].draft)

LEMMA PairedValid ==
  ASSUME NEW limits, NEW base, NEW target, Settings!Valid(target)
  PROVE  Settings!Valid(Settings!Rebase(limits, base, target))
BY DEF Settings!Rebase, Settings!Paired

LEMMA JobsFollow ==
  ASSUME SettingsInv, NEW draft, Sound(draft), Settings!Activates(draft)
  PROVE  /\ Sound(active') /\ pending' = Null /\ DOMAIN job' = Jobs
         /\ \A j \in Jobs : job'[j] = [at |-> job'[j].at, draft |-> job'[j].draft] /\ Sound(job'[j].draft)
<1>1. /\ active' = draft /\ pending' = Null
      /\ job' = [j \in Jobs |-> IF job[j].at = "queued" THEN [job[j] EXCEPT !.draft = draft] ELSE job[j]]
  BY DEF Settings!Activates
<1>2. ASSUME NEW j \in Jobs
      PROVE  job'[j] = [at |-> job'[j].at, draft |-> job'[j].draft] /\ Sound(job'[j].draft)
  <2>1. job[j] = [at |-> job[j].at, draft |-> job[j].draft] /\ Sound(job[j].draft)
    BY DEF SettingsInv
  <2>2. job'[j] = job[j] \/ job'[j] = [job[j] EXCEPT !.draft = draft]
    BY <1>1
  <2> QED
    BY <2>1, <2>2
<1> QED
  BY <1>1, <1>2

LEMMA SettingsStep ==
  ASSUME ValidDefaults, SettingsInv, [Settings!Next]_(Settings!vars) PROVE SettingsInv'
<1> USE DEF Sound
<1>1. CASE Settings!ActivateConfig \/ Settings!RestartApi \/ Settings!RestartDaemon \/ Settings!OpenForm \/ Settings!Pause
  BY <1>1 DEF SettingsInv, Settings!ActivateConfig, Settings!RestartApi, Settings!RestartDaemon, Settings!OpenForm,
     Settings!Pause, Settings!control, Settings!Closed
<1>2. ASSUME NEW limits \in Settings!Edited, Settings!SaveDraft(limits) PROVE SettingsInv'
  <2>1. /\ latest' = [base |-> api, limits |-> Settings!Sent(limits)]
        /\ form'.draft = latest' /\ Settings!Valid(Settings!Sent(limits))
        /\ UNCHANGED <<config, api, active, pending, job, reader>>
    BY <1>2 DEF Settings!SaveDraft, Settings!control
  <2>2. Sound(latest') /\ Sound(form'.draft)
    BY <2>1 DEF SettingsInv
  <2> QED
    BY <2>1, <2>2 DEF SettingsInv
<1>3. CASE Settings!ApplyNow
  BY <1>3, JobsFollow DEF SettingsInv, Settings!ApplyNow, Settings!Closed
<1>4. CASE Settings!ApplyPending
  BY <1>4, JobsFollow DEF SettingsInv, Settings!ApplyPending
<1>5. CASE Settings!ApplyAfterStep
  BY <1>5 DEF SettingsInv, Settings!ApplyAfterStep, Settings!Closed
<1>6. CASE Settings!RestartStep
  <2>1. /\ Sound(form.draft) /\ form' = Settings!Closed /\ UNCHANGED <<config, api, latest, reader>>
    BY <1>6 DEF SettingsInv, Settings!RestartStep
  <2>2. CASE UNCHANGED <<active, pending, job>>
    BY <2>1, <2>2 DEF SettingsInv, Settings!Closed
  <2>3. CASE /\ active' = form.draft /\ pending' = Null
             /\ job' = [j \in Jobs |-> IF job[j].at = "queued" \/ j = runs[form.live].job
                                       THEN [at |-> "queued", draft |-> form.draft] ELSE job[j]]
    BY <2>1, <2>3 DEF SettingsInv, Settings!Closed
  <2> QED
    BY <1>6, <2>2, <2>3 DEF Settings!RestartStep, Settings!control
<1>7. CASE Settings!FindPending
  BY <1>7 DEF SettingsInv, Settings!FindPending, Settings!control
<1>8. CASE Settings!RebaseLatestDraft
  <2>1. Settings!Valid(Settings!Rebase(latest.limits, latest.base, Settings!SettingsAt(config)))
    BY PairedValid DEF ValidDefaults, SettingsInv, Settings!SettingsAt
  <2>2. latest'.base = config /\ Settings!Valid(latest'.limits)
    BY <1>8, <2>1 DEF Settings!RebaseLatestDraft
  <2> QED
    BY <1>8, <2>2 DEF SettingsInv, Settings!RebaseLatestDraft, Settings!control
<1>9. ASSUME NEW j \in Jobs, Settings!CreateJob(j) PROVE SettingsInv'
  BY <1>9 DEF SettingsInv, Settings!CreateJob, Settings!control
<1>10. ASSUME NEW x, NEW now, job' = [job EXCEPT ![x].at = now],
              UNCHANGED <<config, api, latest, active, pending, form, reader>>
       PROVE  SettingsInv'
  <2>1. ASSUME NEW j \in Jobs
        PROVE  job'[j] = [at |-> job'[j].at, draft |-> job'[j].draft] /\ Sound(job'[j].draft)
    <3>1. job[j] = [at |-> job[j].at, draft |-> job[j].draft] /\ Sound(job[j].draft)
      BY DEF SettingsInv
    <3>2. job'[j] = job[j] \/ job'[j] = [job[j] EXCEPT !.at = now]
      BY <1>10 DEF SettingsInv
    <3> QED
      BY <3>1, <3>2
  <2> QED
    BY <1>10, <2>1 DEF SettingsInv
<1>11. ASSUME NEW j \in Jobs, Settings!Lease(j) PROVE SettingsInv'
  BY <1>10, <1>11 DEF Settings!Lease, Settings!control
<1>12. ASSUME NEW r \in 1 .. MaxRuns, Settings!RunEnds(r) PROVE SettingsInv'
  BY <1>10, <1>12 DEF Settings!RunEnds, Settings!control
<1>13. CASE UNCHANGED Settings!vars
  BY <1>13 DEF SettingsInv, Settings!vars, Settings!control
<1> QED
  BY <1>1, <1>2, <1>3, <1>4, <1>5, <1>6, <1>7, <1>8, <1>9, <1>11, <1>12, <1>13 DEF Settings!Next

LEMMA CarriedValid ==
  ASSUME ValidDefaults, SettingsInv, NEW c \in Settings!Configs
  PROVE  /\ Settings!Valid(Settings!ActiveSettings(c))
         /\ \A j \in Jobs : Settings!Valid(Settings!SettingsForJob(j, c))
<1>1. ASSUME NEW draft, draft # Null, Sound(draft), NEW target, Settings!Valid(target)
      PROVE  Settings!Valid(Settings!Carried(draft, c, target))
  BY <1>1, PairedValid DEF Sound, Settings!Carried
<1>2. Settings!Valid(Settings!SettingsAt(c))
  BY DEF ValidDefaults, Settings!SettingsAt
<1>3. Settings!Valid(Settings!ActiveSettings(c))
  BY <1>1, <1>2 DEF SettingsInv, Settings!ActiveSettings
<1>4. ASSUME NEW j \in Jobs PROVE Settings!Valid(Settings!SettingsForJob(j, c))
  BY <1>1, <1>2, <1>3 DEF SettingsInv, Settings!SettingsForJob
<1> QED
  BY <1>3, <1>4

(* Whatever settings were saved over which configurations, and whichever   *)
(* configuration a process still holds, the settings of a job that waits   *)
(* or runs have limits that it can be leased with; for any configurations  *)
(* that have valid limits themselves, and any limits that are entered.     *)
THEOREM LeasableCorrect ==
  ASSUME ValidDefaults PROVE Settings!Spec => []Settings!TokensLeasable
<1>1. Settings!Init => SettingsInv
  BY DEF Settings!Init, SettingsInv, Sound, Settings!Closed
<1>2. SettingsInv /\ [Settings!Next]_(Settings!vars) => SettingsInv'
  BY SettingsStep
<1>3. SettingsInv => Settings!TokensLeasable
  BY CarriedValid DEF Settings!TokensLeasable
<1> QED
  BY <1>1, <1>2, <1>3, PTL DEF Settings!Spec

-----------------------------------------------------------------------------
(* The five builds.                                                        *)

Five == INSTANCE FiveBuild

LEMMA Named ==
  /\ Five!Keys = {"root", "merge", "probe", "decide", "evaluate", "repaired evaluate"} /\ Five!Keys' = Five!Keys
  /\ Five!Trained = {"m1", "m2", "m3", "m5"} /\ Five!Trained' = Five!Trained
  /\ Five!Work = Five!Trained \cup Five!Keys /\ Five!Work' = Five!Work
  /\ \A v \in Five!Merges : Five!Evaluation[v] \in {"evaluate", "repaired evaluate"}
<1>1. /\ Five!Evaluation[1] = "evaluate" /\ Five!Evaluation[2] = "repaired evaluate"
      /\ Five!Evaluation' = Five!Evaluation
  BY DEF Five!Evaluation
<1> QED
  BY <1>1 DEF Five!Keys, Five!Merges, Five!Trained, Five!Work

(* What is left of a step of the graph once its first transaction is made. *)
Rests == {<<>>, <<"inherit">>, <<"pause">>, <<"block", "pause">>}

(* A merge that was evaluated is bound for good: a repair binds another    *)
(* only while the evaluation of the first has failed.  The coordinator     *)
(* authors m5 on an evaluated merge, whatever happened since it saw it.    *)
EvaluatedMerge == record.merge \in Five!Merges /\ Five!Evaluated(record.merge)

CoordinatorOK ==
  LET work == step.coordinator IN
  /\ work \in Rests \cup Five!Works
  /\ work = <<"bind merge", "inherit">> => record.merge = 0
  /\ work = <<"evaluate">> => Five!Is("evaluate", "none")
  /\ work = <<"author m5">> => EvaluatedMerge

FiveTyped ==
  /\ record.merge \in 0 .. 2 /\ "merge" \in DOMAIN record
  /\ DOMAIN flow = Five!Trained /\ \A b \in Five!Trained : DOMAIN flow[b] = {"status", "trained", "material", "start"}
  /\ DOMAIN job = {"status", "probe"} /\ DOMAIN job.status = Five!Work
  /\ DOMAIN step = {"coordinator", "script"}
  /\ step.script \in Seq([do : {"author", "freeze", "resume"}, b : {"m2", "m3"}, m : Nat])

Healed == ~Five!Absent("m5") => flow["m5"].start = record.merge /\ EvaluatedMerge

HealInv == FiveTyped /\ CoordinatorOK /\ Healed

LEMMA WorksProceed ==
  ASSUME NEW work \in Rests \cup Five!Works, work # <<>>
  PROVE  /\ Tail(work) \in Rests
         /\ Head(work) = "author m5" => work = <<"author m5">>
         /\ Head(work) = "evaluate" => work = <<"evaluate">>
         /\ Head(work) = "bind merge" => work = <<"bind merge", "inherit">>
<1>1. ASSUME NEW x PROVE Head(<<x>>) = x /\ Tail(<<x>>) = <<>>
  OBVIOUS
<1>2. ASSUME NEW x, NEW y PROVE Head(<<x, y>>) = x /\ Tail(<<x, y>>) = <<y>>
  OBVIOUS
<1>3. ASSUME NEW x, NEW y, NEW z PROVE Head(<<x, y, z>>) = x /\ Tail(<<x, y, z>>) = <<y, z>>
  OBVIOUS
<1>4. ASSUME NEW x, work = <<x>>
      PROVE  Tail(work) \in Rests /\ \A y : Head(work) = y => work = <<y>>
  <2>1. Head(work) = x /\ Tail(work) = <<>>
    BY <1>1, <1>4
  <2> QED
    BY <1>4, <2>1 DEF Rests
<1>5. CASE work = <<"bind merge", "inherit">>
  <2>1. Head(work) = "bind merge" /\ Tail(work) = <<"inherit">>
    BY <1>2, <1>5
  <2> QED
    BY <1>5, <2>1 DEF Rests
<1>6. CASE work = <<"complete", "pause">>
  <2>1. Head(work) = "complete" /\ Tail(work) = <<"pause">>
    BY <1>2, <1>6
  <2> QED
    BY <1>6, <2>1 DEF Rests
<1>7. CASE work = <<"block", "pause">>
  <2>1. Head(work) = "block" /\ Tail(work) = <<"pause">>
    BY <1>2, <1>7
  <2> QED
    BY <1>7, <2>1 DEF Rests
<1>8. CASE work = <<"mark blocked", "block", "pause">>
  <2>1. Head(work) = "mark blocked" /\ Tail(work) = <<"block", "pause">>
    BY <1>3, <1>8
  <2> QED
    BY <1>8, <2>1 DEF Rests
<1> DEFINE Names == {"bind root", "author m1", "author m2", "author m3", "merge", "evaluate", "author m5", "probe",
                     "decide", "inherit", "pause"}
           Singles == {<<x>> : x \in Names}
<1>9. \/ work \in Singles
      \/ work \in {<<"bind merge", "inherit">>, <<"complete", "pause">>, <<"block", "pause">>,
                   <<"mark blocked", "block", "pause">>}
  BY DEF Rests, Five!Works, Five!Block
<1>10. CASE work \in Singles
  <2>1. PICK x : work = <<x>> /\ x # "bind merge"
    BY <1>10
  <2>2. Head(work) = x
    BY <1>1, <2>1
  <2> QED
    BY <1>4, <2>1, <2>2
<1> QED
  BY <1>5, <1>6, <1>7, <1>8, <1>9, <1>10

LEMMA RestsAreLate ==
  /\ <<"bind merge", "inherit">> \notin Rests /\ <<"evaluate">> \notin Rests /\ <<"author m5">> \notin Rests
  /\ <<>> \in Rests /\ Five!Block \in Five!Works
  /\ Five!Block # <<"bind merge", "inherit">> /\ Five!Block # <<"evaluate">> /\ Five!Block # <<"author m5">>
BY DEF Rests, Five!Works, Five!Block

LEMMA Apart ==
  ASSUME NEW x \in {<<"bind merge", "inherit">>, <<"evaluate">>, <<"author m5">>}
  PROVE  /\ x \notin {<<"bind root">>, <<"author m1">>, <<"author m2">>, <<"author m3">>, <<"merge">>, <<"probe">>,
                       <<"decide">>, <<"complete", "pause">>, Five!Block}
         /\ x = <<"bind merge", "inherit">> => x # <<"evaluate">> /\ x # <<"author m5">>
         /\ x = <<"evaluate">> => x # <<"author m5">>
<1>1. ASSUME NEW a, NEW b, <<a>> = <<b>> PROVE a = b
  <2>1. <<a>>[1] = <<b>>[1]
    BY <1>1
  <2> QED
    BY <2>1
<1>2. ASSUME NEW a, NEW b, NEW c, NEW d, <<a, b>> = <<c, d>> PROVE a = c
  <2>1. <<a, b>>[1] = <<c, d>>[1]
    BY <1>2
  <2> QED
    BY <2>1
<1>3. ASSUME NEW a, NEW b, NEW c PROVE <<a>> # <<b, c>>
  OBVIOUS
<1>4. ASSUME NEW a, NEW b, NEW c, NEW d, NEW e, NEW f PROVE <<a>> # <<b, c, d>> /\ <<e, f>> # <<b, c, d>>
  OBVIOUS
<1>5. CASE x = <<"bind merge", "inherit">>
  BY <1>2, <1>3, <1>4, <1>5 DEF Five!Block
<1>6. CASE x = <<"evaluate">>
  BY <1>1, <1>3, <1>4, <1>6 DEF Five!Block
<1>7. CASE x = <<"author m5">>
  BY <1>1, <1>3, <1>4, <1>7 DEF Five!Block
<1> QED
  BY <1>5, <1>6, <1>7

(* No step takes back the merge, an evaluation of it, or the start of m5:  *)
(* what the coordinator is to do next stays justified.                     *)
Keeps ==
  /\ record'.merge = record.merge
  /\ \A v \in Five!Merges : Five!Evaluated(v) => Five!Evaluated(v)'
  /\ step'.coordinator = <<"evaluate">> /\ Five!Is("evaluate", "none") => Five!Is("evaluate", "none")'
  /\ flow'["m5"].start = flow["m5"].start /\ (Five!Absent("m5")' <=> Five!Absent("m5"))

Goes == step'.coordinator = step.coordinator \/ step'.coordinator \in Rests \cup {Five!Block}

LEMMA HealKept ==
  ASSUME HealInv, FiveTyped', Keeps, Goes PROVE HealInv'
<1>1. EvaluatedMerge => EvaluatedMerge'
  BY DEF Keeps, EvaluatedMerge
<1>2. Healed'
  BY <1>1 DEF HealInv, Healed, Keeps
<1>3. Five!Works' = Five!Works
  BY DEF Five!Works, Five!Block
<1>4. CoordinatorOK'
  <2>1. CASE step'.coordinator = step.coordinator
    BY <1>1, <1>3, <2>1 DEF HealInv, CoordinatorOK, Keeps
  <2>2. CASE step'.coordinator \in Rests \cup {Five!Block}
    BY <1>3, <2>2, RestsAreLate DEF CoordinatorOK
  <2> QED
    BY <2>1, <2>2 DEF Goes
<1> QED
  BY <1>2, <1>4 DEF HealInv

(* The frame of a step that leaves the flows and the jobs alone.           *)
LEMMA RecordKept ==
  ASSUME HealInv, UNCHANGED <<flow, job>>, record'.merge = record.merge, "merge" \in DOMAIN record',
         DOMAIN step' = {"coordinator", "script"},
         step'.script \in Seq([do : {"author", "freeze", "resume"}, b : {"m2", "m3"}, m : Nat]), Goes
  PROVE  HealInv'
BY Named, HealKept DEF HealInv, FiveTyped, Keeps, Five!Evaluated, Five!Is, Five!Absent, Five!Evaluation, Five!Merges

(* A workflow may move, but m5 stays where it started.                     *)
Moves ==
  /\ DOMAIN flow' = Five!Trained
  /\ \A b \in Five!Trained : DOMAIN flow'[b] = {"status", "trained", "material", "start"}
  /\ flow'["m5"].start = flow["m5"].start /\ (Five!Absent("m5")' <=> Five!Absent("m5"))

LEMMA Moving ==
  ASSUME FiveTyped, NEW b \in Five!Trained, NEW x, DOMAIN x = {"status", "trained", "material", "start"},
         flow' = [flow EXCEPT ![b] = x],
         b # "m5" \/ (x.start = flow[b].start /\ (x.status = "none" <=> flow[b].status = "none"))
  PROVE  Moves
BY Named DEF FiveTyped, Moves, Five!Absent

LEMMA FlowKept ==
  ASSUME HealInv, UNCHANGED <<record, job, step>>, Moves PROVE HealInv'
<1>1. FiveTyped' /\ Goes
  BY Named DEF HealInv, FiveTyped, Goes, Moves
<1>2. Keeps
  BY Named DEF HealInv, FiveTyped, Keeps, Moves, Five!Evaluated, Five!Is, Five!Evaluation, Five!Merges
<1> QED
  BY <1>1, <1>2, HealKept

(* One job moves, and none that evaluated a merge.                         *)
LEMMA JobKept ==
  ASSUME HealInv, record' = record, Moves, NEW k \in Five!Work, NEW now,
         DOMAIN job' = {"status", "probe"}, job'.status = [job.status EXCEPT ![k] = now],
         \A v \in Five!Merges : k = Five!Evaluation[v] => ~Five!Is(k, "succeeded"),
         k = "evaluate" /\ Five!Is(k, "none") => step'.coordinator # <<"evaluate">>,
         DOMAIN step' = {"coordinator", "script"},
         step'.script \in Seq([do : {"author", "freeze", "resume"}, b : {"m2", "m3"}, m : Nat]), Goes
  PROVE  HealInv'
<1>0. /\ \A v \in Five!Merges : Five!Evaluation[v] \in Five!Work
      /\ "evaluate" \in Five!Work /\ Five!Work' = Five!Work
      /\ Five!Evaluation' = Five!Evaluation /\ Five!Merges' = Five!Merges
  BY Named DEF Five!Evaluation, Five!Merges
<1>1. FiveTyped'
  BY <1>0, Named DEF HealInv, FiveTyped, Moves
<1>2. \A l \in Five!Work : job'.status[l] = IF l = k THEN now ELSE job.status[l]
  BY DEF HealInv, FiveTyped
<1>3. Keeps
  <2>1. \A v \in Five!Merges : Five!Evaluated(v) => Five!Evaluated(v)'
    BY <1>0, <1>2 DEF Five!Evaluated, Five!Is
  <2>2. step'.coordinator = <<"evaluate">> /\ Five!Is("evaluate", "none") => Five!Is("evaluate", "none")'
    BY <1>0, <1>2 DEF Five!Is
  <2> QED
    BY <2>1, <2>2 DEF Keeps, Moves
<1> QED
  BY <1>1, <1>3, HealKept

-----------------------------------------------------------------------------
(* Every action, by the frame that it keeps.                               *)

LEMMA HealStep ==
  ASSUME HealInv, [Five!Next]_(Five!vars) PROVE HealInv'
<1> DEFINE ScriptType == Seq([do : {"author", "freeze", "resume"}, b : {"m2", "m3"}, m : Nat])
<1>0. /\ FiveTyped /\ CoordinatorOK /\ Healed /\ step.script \in ScriptType
      /\ "merge" \in DOMAIN record /\ DOMAIN step = {"coordinator", "script"}
  BY DEF HealInv, FiveTyped
<1>p. ASSUME step.coordinator # <<>>, Five!Proceed
      PROVE  /\ step'.coordinator \in Rests /\ step'.script = step.script /\ Goes
             /\ DOMAIN step' = {"coordinator", "script"}
  <2>1. step'.coordinator = Tail(step.coordinator) /\ step'.script = step.script
        /\ DOMAIN step' = {"coordinator", "script"}
    BY <1>0, <1>p DEF Five!Proceed
  <2>2. Tail(step.coordinator) \in Rests
    BY <1>0, <1>p, WorksProceed DEF CoordinatorOK
  <2> QED
    BY <2>1, <2>2 DEF Goes
<1>w. ASSUME NEW w, Five!Writes(w)
      PROVE  /\ step.coordinator # <<>>
             /\ w = "author m5" => EvaluatedMerge
             /\ w = "bind merge" => record.merge = 0
             /\ w = "evaluate" => Five!Is("evaluate", "none")
  BY <1>0, <1>w, WorksProceed DEF Five!Writes, CoordinatorOK
(* The coordinator looks.                                                  *)
<1>1. ASSUME NEW work \in Five!Works, Five!Tick(work) PROVE HealInv'
  <2>1. /\ UNCHANGED <<record, flow, job>> /\ step'.coordinator = work /\ step'.script = step.script
        /\ DOMAIN step' = {"coordinator", "script"}
    BY <1>0, <1>1 DEF Five!Tick
  <2>2. Five!Due(work)
    BY <1>1 DEF Five!Tick
  <2>3. /\ work = <<"bind merge", "inherit">> => record.merge = 0
        /\ work = <<"evaluate">> => Five!Is("evaluate", "none")
        /\ work = <<"author m5">> => Five!Healing
    <3>1. ASSUME work \in {<<"bind merge", "inherit">>, <<"evaluate">>, <<"author m5">>}
          PROVE  \/ work = <<"bind merge", "inherit">> /\ Five!Foundations /\ Five!Is("merge", "succeeded")
                    /\ record.merge = 0
                 \/ work = <<"evaluate">> /\ Five!Bound /\ ~Five!Evaluated(record.merge)
                    /\ Five!Is("evaluate", "none")
                 \/ work = <<"author m5">> /\ Five!Healing /\ Five!Absent("m5") /\ record.m3 # 0
      BY <2>2, <3>1, Apart DEF Five!Due
    <3> QED
      BY <3>1, Apart
  <2>4. Five!Healing => EvaluatedMerge
    <3>1. record.merge \in 0 .. 2
      BY <1>0 DEF FiveTyped
    <3> QED
      BY <3>1 DEF Five!Healing, Five!Bound, EvaluatedMerge, Five!Merges
  <2>5. CoordinatorOK' /\ Healed'
    BY <1>0, <2>1, <2>3, <2>4 DEF CoordinatorOK, Healed, EvaluatedMerge, Five!Evaluated, Five!Is, Five!Absent,
       Five!Works, Five!Block
  <2> QED
    BY <1>0, <2>1, <2>5, Named DEF HealInv, FiveTyped
(* It writes.                                                              *)
<1>2. CASE Five!BindRoot \/ Five!Inherit \/ Five!Complete
  <2>1. /\ step.coordinator # <<>> /\ Five!Proceed /\ UNCHANGED <<flow, job>>
        /\ record'.merge = record.merge /\ "merge" \in DOMAIN record'
    BY <1>0, <1>2, <1>w DEF Five!BindRoot, Five!Inherit, Five!Complete
  <2> QED
    BY <1>0, <1>p, <2>1, RecordKept
<1>3. CASE Five!BlockCampaign \/ Five!Pause
  <2>1. step.coordinator # <<>> /\ Five!Proceed /\ UNCHANGED <<record, flow, job>>
    BY <1>3, <1>w DEF Five!BlockCampaign, Five!Pause
  <2> QED
    BY <1>0, <1>p, <2>1, RecordKept
<1>4. CASE Five!MarkBlocked
  <2>1. /\ step.coordinator # <<>> /\ UNCHANGED <<flow, job>>
        /\ Five!Proceed \/ step' = [step EXCEPT !.coordinator = <<>>]
        /\ record'.merge = record.merge /\ "merge" \in DOMAIN record'
    BY <1>0, <1>4, <1>w DEF Five!MarkBlocked
  <2>2. Goes /\ step'.script = step.script /\ DOMAIN step' = {"coordinator", "script"}
    BY <1>0, <1>p, <2>1, RestsAreLate DEF Goes
  <2> QED
    BY <1>0, <2>1, <2>2, RecordKept
<1>5. CASE Five!BindMerge
  <2>1. /\ record.merge = 0 /\ step'.coordinator \in Rests /\ step'.script = step.script
        /\ DOMAIN step' = {"coordinator", "script"} /\ UNCHANGED <<flow, job>>
        /\ record'.merge = 1 /\ "merge" \in DOMAIN record'
    BY <1>0, <1>5, <1>p, <1>w DEF Five!BindMerge
  <2>2. Five!Absent("m5")
    BY <1>0, <2>1 DEF Healed, EvaluatedMerge, Five!Merges
  <2>3. FiveTyped'
    <3>1. record'.merge \in 0 .. 2
      BY <2>1
    <3> QED
      BY <1>0, <2>1, <3>1, Named DEF FiveTyped
  <2>4. CoordinatorOK' /\ Healed'
    BY <2>1, <2>2, RestsAreLate DEF CoordinatorOK, Healed, Five!Absent
  <2> QED
    BY <2>3, <2>4 DEF HealInv
<1>6. ASSUME NEW b \in Five!Trained, NEW work, NEW material, NEW start, Five!Author(b, work, material, start),
             b = "m5" => work = "author m5" /\ start = record.merge
      PROVE  HealInv'
  <2>1. CASE Five!Absent(b)
    <3>1. /\ flow' = [flow EXCEPT ![b] = [status |-> "active", trained |-> FALSE,
                                          material |-> material, start |-> start]]
          /\ step'.coordinator \in Rests /\ step'.script = step.script
          /\ DOMAIN step' = {"coordinator", "script"} /\ UNCHANGED <<record, job>>
      BY <1>6, <1>p, <1>w, <2>1 DEF Five!Author
    <3>2. FiveTyped'
      BY <1>0, <3>1, Named DEF FiveTyped
    <3>3. CoordinatorOK'
      BY <3>1, RestsAreLate DEF CoordinatorOK
    <3>4. EvaluatedMerge' <=> EvaluatedMerge
      BY <3>1 DEF EvaluatedMerge, Five!Evaluated, Five!Is, Five!Merges, Five!Evaluation
    <3>5. Healed'
      <4>1. CASE b = "m5"
        <5>1. EvaluatedMerge /\ start = record.merge
          BY <1>6, <1>w, <4>1 DEF Five!Author
        <5>2. flow'["m5"].start = start
          BY <1>0, <3>1, <4>1 DEF FiveTyped
        <5> QED
          BY <3>1, <3>4, <5>1, <5>2 DEF Healed
      <4>2. CASE b # "m5"
        <5>1. flow'["m5"] = flow["m5"]
          BY <1>0, <3>1, <4>2 DEF FiveTyped
        <5> QED
          BY <1>0, <3>1, <3>4, <5>1 DEF Healed, Five!Absent
      <4> QED
        BY <4>1, <4>2
    <3> QED
      BY <3>2, <3>3, <3>5 DEF HealInv
  <2>2. CASE ~Five!Absent(b)
    <3>1. /\ step' = [step EXCEPT !.coordinator = IF flow[b].status = "active" THEN <<>> ELSE Five!Block]
          /\ UNCHANGED <<record, flow, job>>
      BY <1>6, <2>2 DEF Five!Author
    <3>2. Goes /\ step'.script = step.script /\ DOMAIN step' = {"coordinator", "script"}
      BY <1>0, <3>1, RestsAreLate DEF Goes
    <3> QED
      BY <1>0, <3>1, <3>2, RecordKept
  <2> QED
    BY <2>1, <2>2

<1>7. ASSUME NEW key \in {"merge", "evaluate", "probe", "decide"}, Five!CreateJob(key) PROVE HealInv'
  <2>1. /\ key \in Five!Work /\ job'.status = [job.status EXCEPT ![key] = "queued"]
        /\ DOMAIN job' = {"status", "probe"} /\ record' = record /\ flow' = flow
    BY <1>0, <1>7, Named DEF Five!CreateJob, FiveTyped
  <2>2. /\ step'.coordinator \in Rests /\ step'.script = step.script /\ Goes
        /\ DOMAIN step' = {"coordinator", "script"}
    BY <1>7, <1>p, <1>w DEF Five!CreateJob
  <2>3. \A v \in Five!Merges : key = Five!Evaluation[v] => ~Five!Is(key, "succeeded")
    BY <1>7, <1>w, Named DEF Five!CreateJob, Five!Is
  <2>4. Moves
    BY <1>0, <2>1, Named DEF Moves, FiveTyped, Five!Absent
  <2> QED
    BY <1>0, <2>1, <2>2, <2>3, <2>4, JobKept, RestsAreLate
(* The operator and the scripts.                                           *)
<1>8. ASSUME NEW batches, Five!Commission(batches) \/ Five!Freeze PROVE HealInv'
  <2>1. /\ record'.merge = record.merge /\ "merge" \in DOMAIN record' /\ UNCHANGED <<flow, job, step>>
    BY <1>0, <1>8 DEF Five!Commission, Five!Freeze
  <2> QED
    BY <1>0, <2>1, RecordKept DEF Goes
<1>9. ASSUME NEW to, Five!Switch(to) PROVE HealInv'
  BY <1>0, <1>9, RecordKept DEF Five!Switch, Goes
<1>10. ASSUME NEW b \in {"m2", "m3"}, NEW material \in {1, 2}, Five!Script(b, material) PROVE HealInv'
  <2> DEFINE script == <<[do |-> "author", b |-> b, m |-> material], [do |-> "freeze", b |-> b, m |-> material],
                         [do |-> "resume", b |-> b, m |-> material]>>
  <2>1. step' = [step EXCEPT !.script = script] /\ UNCHANGED <<record, flow, job>>
    BY <1>10 DEF Five!Script
  <2>2. script \in ScriptType
    OBVIOUS
  <2> HIDE DEF script
  <2> QED
    BY <1>0, <2>1, <2>2, RecordKept DEF Goes
<1>s. ASSUME step.script # <<>>
      PROVE  Head(step.script).b \in {"m2", "m3"} /\ Tail(step.script) \in ScriptType
  <2>1. ASSUME NEW T, NEW s \in Seq(T), s # <<>> PROVE Head(s) \in T /\ Tail(s) \in Seq(T)
    BY <2>1
  <2> DEFINE Item == [do : {"author", "freeze", "resume"}, b : {"m2", "m3"}, m : Nat]
  <2>2. \A x \in Item : x.b \in {"m2", "m3"}
    OBVIOUS
  <2>3. step.script \in Seq(Item)
    BY <1>0
  <2> HIDE DEF Item
  <2>4. Head(step.script) \in Item /\ Tail(step.script) \in Seq(Item)
    BY <1>s, <2>1, <2>3
  <2> QED
    BY <2>2, <2>4 DEF Item
<1>e. <<>> \in ScriptType
  OBVIOUS
<1>11. CASE Five!ScriptAuthors
  <2> DEFINE s == Head(step.script)
             new == [status |-> "active", trained |-> FALSE, material |-> s.m, start |-> 0]
  <2>1. /\ s.b \in {"m2", "m3"} /\ record' = record
        /\ step'.script \in ScriptType /\ step'.coordinator = step.coordinator
        /\ DOMAIN step' = {"coordinator", "script"}
        /\ \/ UNCHANGED <<flow, job>>
           \/ flow' = [flow EXCEPT ![s.b] = new] /\ job' = [job EXCEPT !.status[s.b] = "none"]
    BY <1>0, <1>11, <1>s, <1>e DEF Five!ScriptAuthors, Five!Doing
  <2>2. CASE UNCHANGED <<flow, job>>
    BY <1>0, <2>1, <2>2, RecordKept DEF Goes
  <2>3. CASE flow' = [flow EXCEPT ![s.b] = new] /\ job' = [job EXCEPT !.status[s.b] = "none"]
    <3>1. s.b \in Five!Trained /\ s.b # "m5" /\ s.b \in Five!Work
          /\ \A v \in Five!Merges : s.b # Five!Evaluation[v]
      BY <2>1, Named
    <3>2. DOMAIN new = {"status", "trained", "material", "start"}
      OBVIOUS
    <3> HIDE DEF s, new
    <3>3. Moves
      BY <1>0, <2>3, <3>1, <3>2, Moving
    <3>4. PICK k \in Five!Work : k = s.b
      BY <3>1
    <3>5. job'.status = [job.status EXCEPT ![k] = "none"] /\ DOMAIN job' = {"status", "probe"}
      BY <1>0, <2>3, <3>4 DEF FiveTyped
    <3>6. k # "evaluate" /\ \A v \in Five!Merges : k # Five!Evaluation[v]
      BY <2>1, <3>1, <3>4
    <3>7. Goes
      BY <2>1 DEF Goes
    <3> QED
      BY <2>1, <3>3, <3>5, <3>6, <3>7, JobKept
  <2> QED
    BY <2>1, <2>2, <2>3
<1>12. CASE Five!ScriptFreezes
  <2>1. /\ UNCHANGED <<flow, job>> /\ record'.merge = record.merge /\ "merge" \in DOMAIN record'
        /\ step'.script \in ScriptType /\ step'.coordinator = step.coordinator
        /\ DOMAIN step' = {"coordinator", "script"}
    BY <1>0, <1>12, <1>s DEF Five!ScriptFreezes, Five!Doing
  <2> QED
    BY <1>0, <2>1, RecordKept DEF Goes
<1>13. CASE Five!ScriptResumes
  <2>1. /\ UNCHANGED <<record, flow, job>> /\ step'.script = <<>> /\ step'.coordinator = step.coordinator
        /\ DOMAIN step' = {"coordinator", "script"}
    BY <1>0, <1>13 DEF Five!ScriptResumes
  <2> QED
    BY <1>0, <1>e, <2>1, RecordKept DEF Goes
(* Workflows and jobs.                                                     *)
<1>t. ASSUME NEW b \in Five!Trained, NEW ends \in {"active", "succeeded", "failed", "blocked"},
             flow[b].status # "none", flow' = [flow EXCEPT ![b].status = ends]
      PROVE  Moves
  <2>1. flow' = [flow EXCEPT ![b] = [flow[b] EXCEPT !.status = ends]]
    BY <1>0, <1>t DEF FiveTyped
  <2> DEFINE x == [flow[b] EXCEPT !.status = ends]
  <2>2. /\ DOMAIN x = {"status", "trained", "material", "start"}
        /\ x.start = flow[b].start /\ x.status # "none"
    BY <1>0, <1>t DEF FiveTyped
  <2> HIDE DEF x
  <2> QED
    BY <1>0, <1>t, <2>1, <2>2, Moving DEF x
<1>14. ASSUME NEW b \in Five!Trained,
              Five!MarksFailed(b) \/ Five!GivesUp(b) \/ Five!Finishes(b) \/ Five!Reopens(b)
       PROVE  HealInv'
  <2>1. PICK ends \in {"active", "succeeded", "failed", "blocked"} :
          /\ flow' = [flow EXCEPT ![b].status = ends] /\ flow[b].status # "none"
          /\ UNCHANGED <<record, job, step>>
    BY <1>14 DEF Five!MarksFailed, Five!GivesUp, Five!Finishes, Five!Reopens, Five!Steers, Five!Failures
  <2> QED
    BY <1>t, <2>1, FlowKept
<1>u. ASSUME flow' = flow PROVE Moves
  BY <1>0, <1>u, Named DEF Moves, FiveTyped, Five!Absent
<1>j. ASSUME NEW k \in Five!Work, NEW now, UNCHANGED <<record, step>>, Moves,
             job' = [job EXCEPT !.status[k] = now],
             k \in Five!Trained \/ (~Five!Is(k, "succeeded") /\ ~Five!Is(k, "none"))
      PROVE  HealInv'
  <2>1. job'.status = [job.status EXCEPT ![k] = now] /\ DOMAIN job' = {"status", "probe"}
    BY <1>0, <1>j DEF FiveTyped
  <2>2. /\ \A v \in Five!Merges : k = Five!Evaluation[v] => ~Five!Is(k, "succeeded")
        /\ k = "evaluate" => ~Five!Is(k, "none")
    BY <1>j, Named
  <2>3. Goes
    BY <1>j DEF Goes
  <2> QED
    BY <1>0, <1>j, <2>1, <2>2, <2>3, JobKept
<1>15. ASSUME NEW k \in Five!Work, Five!Leases(k) \/ Five!Fails(k) \/ Five!Succeeds(k) \/ Five!Ages(k)
       PROVE  HealInv'
  <2>1. Moves
    <3>1. CASE flow' = flow
      BY <1>u, <3>1
    <3>2. CASE k \in Five!Trained /\ flow' = [flow EXCEPT ![k].trained = TRUE]
      <4> DEFINE x == [flow[k] EXCEPT !.trained = TRUE]
      <4>1. flow' = [flow EXCEPT ![k] = x]
        BY <1>0, <3>2 DEF FiveTyped
      <4>2. /\ DOMAIN x = {"status", "trained", "material", "start"}
            /\ x.start = flow[k].start /\ x.status = flow[k].status
        BY <1>0, <3>2 DEF FiveTyped
      <4> HIDE DEF x
      <4> QED
        BY <1>0, <3>2, <4>1, <4>2, Moving
    <3> QED
      BY <1>15, <3>1, <3>2 DEF Five!Leases, Five!Fails, Five!Succeeds, Five!Ages
  <2>2. PICK now : job' = [job EXCEPT !.status[k] = now]
                   /\ UNCHANGED <<record, step>> /\ ~Five!Is(k, "succeeded") /\ ~Five!Is(k, "none")
    BY <1>15 DEF Five!Leases, Five!Fails, Five!Succeeds, Five!Ages, Five!Is
  <2> QED
    BY <1>j, <2>1, <2>2
<1>c. ASSUME NEW b \in Five!Trained, Five!CreatesStage(b) PROVE HealInv'
  <2>1. b \in Five!Work
    BY Named
  <2> QED
    BY <1>c, <1>j, <1>u, <2>1 DEF Five!CreatesStage
<1>r. ASSUME NEW k \in Five!Work, Five!Requeues(k) PROVE HealInv'
  <2>1. Moves
    BY <1>r, <1>t, <1>u DEF Five!Requeues, Five!Absent
  <2>2. ~Five!Is(k, "succeeded") /\ ~Five!Is(k, "none")
    BY <1>r DEF Five!Requeues, Five!Is
  <2> QED
    BY <1>j, <1>r, <2>1, <2>2 DEF Five!Requeues
<1>x. ASSUME NEW k \in Five!Work, Five!Lifts(k) PROVE HealInv'
  BY <1>0, <1>x, RecordKept DEF Five!Lifts, Goes
(* A repair binds another merge, before m5 was started on the first.       *)
<1>16. CASE Five!RepairMerge
  <2>1. /\ Five!Is("evaluate", "failed") /\ record.merge = 1 /\ UNCHANGED <<flow, step>>
        /\ record'.merge = 2 /\ "merge" \in DOMAIN record'
        /\ DOMAIN job' = {"status", "probe"} /\ DOMAIN job'.status = Five!Work
        /\ job'.status["evaluate"] = job.status["evaluate"]
    BY <1>0, <1>16, Named DEF Five!RepairMerge, FiveTyped
  <2>2. ~EvaluatedMerge
    BY <2>1 DEF EvaluatedMerge, Five!Evaluated, Five!Is, Five!Evaluation
  <2>3. Five!Absent("m5") /\ step.coordinator \notin {<<"bind merge", "inherit">>, <<"evaluate">>, <<"author m5">>}
    <3>1. ~Five!Is("evaluate", "none") /\ record.merge # 0
      BY <2>1 DEF Five!Is
    <3> QED
      BY <1>0, <2>2, <3>1 DEF Healed, CoordinatorOK
  <2>4. FiveTyped'
    <3>1. record'.merge \in 0 .. 2
      BY <2>1
    <3> QED
      BY <1>0, <2>1, <3>1, Named DEF FiveTyped
  <2>5. CoordinatorOK' /\ Healed'
    BY <1>0, <2>1, <2>3 DEF CoordinatorOK, Healed, Five!Absent, Five!Works, Five!Block
  <2> QED
    BY <2>4, <2>5 DEF HealInv
<1>17. ASSUME NEW who \in DOMAIN step, Five!Crash(who) PROVE HealInv'
  <2>1. /\ UNCHANGED <<record, flow, job>> /\ DOMAIN step' = {"coordinator", "script"}
        /\ step'.script \in ScriptType /\ Goes
    BY <1>0, <1>e, <1>17, RestsAreLate DEF Five!Crash, Goes
  <2> QED
    BY <1>0, <2>1, RecordKept
<1>18. CASE UNCHANGED Five!vars
  BY <1>0, <1>18, RecordKept DEF Five!vars, Goes
<1> QED
  <2>1. {"m1", "m2", "m3", "m5"} = Five!Trained
    BY DEF Five!Trained
  <2>2. CASE \/ Five!Author("m1", "author m1", record.batches, 0) \/ Five!Author("m2", "author m2", 0, 0)
             \/ Five!Author("m3", "author m3", 0, 0) \/ Five!Author("m5", "author m5", record.m3, record.merge)
    BY <1>6, <2>1, <2>2
  <2>3. ASSUME NEW b \in Five!Trained,
               \/ Five!CreatesStage(b) \/ Five!MarksFailed(b) \/ Five!GivesUp(b) \/ Five!Finishes(b)
               \/ Five!Retried(b) \/ Five!Reopens(b)
        PROVE  HealInv'
    BY <1>14, <1>c, <1>r, <2>3, Named DEF Five!Retried
  <2>4. ASSUME NEW k \in Five!Work,
               Five!Leases(k) \/ Five!Succeeds(k) \/ Five!Fails(k) \/ Five!Repaired(k) \/ Five!Lifts(k)
        PROVE  HealInv'
    BY <1>15, <1>r, <1>x, <2>4 DEF Five!Repaired
  <2>5. ASSUME NEW key \in Five!Keys, Five!Ages(key) PROVE HealInv'
    BY <1>15, <2>5 DEF Five!Work
  <2> QED
    BY <1>1, <1>2, <1>3, <1>4, <1>5, <1>7, <1>8, <1>9, <1>10, <1>11, <1>12, <1>13, <1>16, <1>17,
       <1>18, <2>2, <2>3, <2>4, <2>5 DEF Five!Next

(* m5 heals the merge the campaign is bound to, and only after that very   *)
(* checkpoint was evaluated, whichever of two merges and two evaluations   *)
(* was repaired, retried or bound meanwhile; for any number of failures    *)
(* and crashes (Campaign35Coordinator._advance).                           *)
THEOREM HealsCorrect ==
  Five!Spec => []Five!HealsTheEvaluatedMerge
<1>1. Five!Init => HealInv
  <2> SUFFICES ASSUME Five!Init PROVE HealInv
    OBVIOUS
  <2>1. /\ record.merge = 0 /\ "merge" \in DOMAIN record
        /\ DOMAIN job = {"status", "probe"} /\ DOMAIN job.status = Five!Work
        /\ DOMAIN flow = Five!Trained
        /\ \A b \in Five!Trained : DOMAIN flow[b] = {"status", "trained", "material", "start"} /\ Five!Absent(b)
        /\ DOMAIN step = {"coordinator", "script"} /\ step.coordinator = <<>> /\ step.script = <<>>
    BY DEF Five!Init, Five!Absent, Five!Idle
  <2>2. Healed
    BY <2>1, Named DEF Healed
  <2>3. CoordinatorOK
    BY <2>1, RestsAreLate DEF CoordinatorOK
  <2>4. step.script \in Seq([do : {"author", "freeze", "resume"}, b : {"m2", "m3"}, m : Nat])
    BY <2>1
  <2> QED
    BY <2>1, <2>2, <2>3, <2>4 DEF HealInv, FiveTyped
<1>2. HealInv /\ [Five!Next]_(Five!vars) => HealInv'
  BY HealStep
<1>3. HealInv => Five!HealsTheEvaluatedMerge
  BY DEF HealInv, Healed, EvaluatedMerge, Five!HealsTheEvaluatedMerge, Five!Evaluated
<1> QED
  BY <1>1, <1>2, <1>3, PTL DEF Five!Spec

-----------------------------------------------------------------------------
(* Images for the claims of a curriculum.                                  *)

Acquisition == INSTANCE LessonAcquisition

Queues == UNION {[some -> Acquisition!Verdicts \cup {"pending"}] : some \in SUBSET Acquisition!Rows}

(* A queue is of images that the corpus review found usable, and an export *)
(* is an earlier state of its queue, in which no verdict was taken back    *)
(* since.                                                                  *)
PassOK(p) ==
  /\ p = [from |-> p.from, queue |-> p.queue, exported |-> p.exported]
  /\ p.queue \in Queues /\ DOMAIN p.queue # {}
  /\ \A r \in DOMAIN p.queue : decision[r[2]] = "usable"
  /\ p.exported # Null =>
        /\ DOMAIN p.exported = DOMAIN p.queue
        /\ \A r \in DOMAIN p.queue : p.exported[r] # "pending" => p.exported[r] = p.queue[r]

PassesOK ==
  /\ Len(passes) \in Nat /\ passes = [k \in 1 .. Len(passes) |-> passes[k]]
  /\ \A k \in DOMAIN passes : PassOK(passes[k])

RegistryOK ==
  /\ DOMAIN decision = Assets /\ DOMAIN status = Assets
  /\ \A x \in Assets : status[x] = "reviewed_usable" => decision[x] = "usable"

(* Images of other datasets are looked for once every item has a route,    *)
(* and no pass of the registry's proposal is folded in after that; until   *)
(* then everything accepted is of one proposal.                            *)
OfOneProposal ==
  /\ proposal.from # "external" /\ Acquisition!Distinct(proposal.rows)
  /\ \A k \in DOMAIN passes : passes[k].from # "external" /\ DOMAIN passes[k].queue \subseteq proposal.rows
  /\ ledger.protected \subseteq proposal.rows
  /\ proposal.from = "none" => DOMAIN passes = {} /\ ledger.protected = {}

SearchOK ==
  /\ shortlist = [rows |-> shortlist.rows, at |-> shortlist.at]
  /\ proposal = [rows |-> proposal.rows, from |-> proposal.from] /\ proposal.rows \subseteq Acquisition!Rows
  /\ proposal.from = "none" => proposal.rows = {}
  /\ shortlist.rows \subseteq Acquisition!Rows
  /\ asked # {} \/ shortlist.at # "none" => Acquisition!Complete
  /\ asked # {} => ledger.external \subseteq asked
  /\ asked \subseteq Items
  /\ shortlist.at = "none" => OfOneProposal

Chosen(r) == decision[r[2]] = "usable" /\ \E k \in DOMAIN passes : r \in Acquisition!Bucket(k, {"accept"})

LedgerOK ==
  /\ ledger = [protected |-> ledger.protected, external |-> ledger.external, dispositions |-> ledger.dispositions]
  /\ ledger.protected \subseteq Acquisition!Rows /\ ledger.external \subseteq Items /\ ledger.dispositions \subseteq Items
  /\ Acquisition!Distinct(ledger.protected)
  /\ \A r \in ledger.protected : Chosen(r)

SelectedInv == RegistryOK /\ PassesOK /\ SearchOK /\ LedgerOK

(* In an assignment no two items have one image.                           *)
LEMMA AssignmentDistinct ==
  ASSUME Items \subseteq Int, NEW fits, NEW f \in Acquisition!Assignments(fits)
  PROVE  Acquisition!Distinct(Acquisition!RowsOf(f)) /\ Acquisition!RowsOf(f) \subseteq Acquisition!Rows
<1>1. /\ f \in [Items -> Assets \cup {Null}]
      /\ \A i, j \in Items : j < i /\ f[i] # Null => f[i] # f[j]
  BY DEF Acquisition!Assignments
<1>2. ASSUME NEW i \in Items, NEW j \in Items, i # j, f[i] # Null, f[j] # Null PROVE f[i] # f[j]
  <2>1. i < j \/ j < i
    BY <1>2
  <2> QED
    BY <1>1, <1>2, <2>1
<1>3. ASSUME NEW r \in Acquisition!RowsOf(f)
      PROVE  \E i \in Items : r = <<i, f[i]>> /\ f[i] # Null /\ f[i] \in Assets
  BY <1>1, <1>3 DEF Acquisition!RowsOf
<1> QED
  BY <1>2, <1>3 DEF Acquisition!Distinct, Acquisition!Rows

(* Once every item has a route, no pass of the registry can be folded in:  *)
(* it has items, and each of them has a route already.                     *)
LEMMA NoneAfterwards ==
  ASSUME SelectedInv, Acquisition!Complete, NEW k \in DOMAIN passes, Acquisition!Reconcile(k) PROVE FALSE
<1> DEFINE p == passes[k]
           accepted == Acquisition!Bucket(k, {"accept"})
           refused == Acquisition!ItemsOf(Acquisition!Bucket(k, {"reject", "uncertain"}))
<1>1. PassOK(p) /\ LedgerOK
  BY DEF SelectedInv, PassesOK
<1>2. PICK r \in DOMAIN p.queue : TRUE
  BY <1>1 DEF PassOK
<1>3. r[1] \in Items
  BY <1>1, <1>2 DEF PassOK, Queues, Acquisition!Rows
<1>4. r[1] \in Acquisition!ItemsOf(ledger.protected) \/ r[1] \in ledger.external \/ r[1] \in ledger.dispositions
  BY <1>3 DEF Acquisition!Complete
<1>5. r \in accepted \/ r \in Acquisition!Bucket(k, {"reject", "uncertain"})
  <2>1. p.exported # Null /\ p.exported[r] # "pending" /\ DOMAIN p.exported = DOMAIN p.queue
    BY <1>1, <1>2 DEF Acquisition!Reconcile, Acquisition!Finished, Acquisition!Bucket, PassOK
  <2>2. p.exported[r] \in Acquisition!Verdicts
    BY <1>1, <1>2, <2>1 DEF PassOK, Queues
  <2> QED
    BY <1>2, <2>1, <2>2 DEF Acquisition!Bucket, Acquisition!Verdicts
<1>6. r[1] \in Acquisition!ItemsOf(accepted) \/ r[1] \in refused
  BY <1>5 DEF Acquisition!ItemsOf
<1>7. /\ refused \cap ledger.external = {}
      /\ Acquisition!ItemsOf(ledger.protected) \cap Acquisition!ItemsOf(accepted) = {}
      /\ Acquisition!ItemsOf(ledger.protected \cup accepted) \cap (ledger.external \cup refused) = {}
      /\ (Acquisition!ItemsOf(ledger.protected \cup accepted) \cup (ledger.external \cup refused))
            \cap ledger.dispositions = {}
  BY <1>1 DEF Acquisition!Reconcile, Acquisition!RouteDisjoint, LedgerOK
<1>8. \A rows1, rows2 : Acquisition!ItemsOf(rows1 \cup rows2)
                            = Acquisition!ItemsOf(rows1) \cup Acquisition!ItemsOf(rows2)
  BY DEF Acquisition!ItemsOf
<1> HIDE DEF accepted, refused
<1> QED
  BY <1>4, <1>6, <1>7, <1>8

LEMMA PassStays ==
  ASSUME NEW p, PassOK(p), \A x \in Assets : decision[x] = "usable" => decision'[x] = "usable" PROVE PassOK(p)'
<1>1. \A r \in DOMAIN p.queue : r[2] \in Assets
  BY DEF PassOK, Queues, Acquisition!Rows
<1>2. Queues' = Queues
  BY DEF Queues, Acquisition!Rows, Acquisition!Verdicts
<1> QED
  BY <1>1, <1>2 DEF PassOK

(* A step of a pass, of the registry or of a list leaves a selection that  *)
(* was made what it was.                                                   *)
LEMMA ChosenStays ==
  ASSUME SelectedInv, PassesOK', UNCHANGED ledger,
         \A x \in Assets : decision[x] = "usable" => decision'[x] = "usable",
         \A k \in DOMAIN passes : k \in DOMAIN passes' /\ Acquisition!Bucket(k, {"accept"}) \subseteq Acquisition!Bucket(k, {"accept"})'
  PROVE  LedgerOK'
<1>1. ASSUME NEW r \in ledger.protected PROVE Chosen(r)'
  <2>1. Chosen(r) /\ r[2] \in Assets
    BY DEF SelectedInv, LedgerOK, Acquisition!Rows
  <2> QED
    BY <2>1 DEF Chosen
<1> QED
  BY <1>1 DEF SelectedInv, LedgerOK, Acquisition!Distinct, Acquisition!Rows

-----------------------------------------------------------------------------
(* Step by step.                                                           *)

LEMMA SelectedStep ==
  ASSUME Items \subseteq Int, Coco \subseteq Assets, Null # "usable", Null \notin Queues, SelectedInv, [Acquisition!Next]_(Acquisition!vars)
  PROVE  SelectedInv'
<1>0. RegistryOK /\ PassesOK /\ SearchOK /\ LedgerOK
  BY DEF SelectedInv
(* The registry is searched.                                               *)
<1>1. CASE Acquisition!Assign
  <2>1. PICK some : /\ Acquisition!Distinct(some) /\ some \subseteq Acquisition!Rows
                    /\ proposal' = [rows |-> some, from |-> "registry"]
                    /\ ledger' = [ledger EXCEPT !.external = Items \ Acquisition!ItemsOf(some)]
    BY <1>1, AssignmentDistinct DEF Acquisition!Assign
  <2>2. /\ UNCHANGED <<status, decision, shortlist, passes, asked>> /\ proposal.from = "none"
    BY <1>1 DEF Acquisition!Assign
  <2>3. shortlist.at = "none" /\ asked = {} /\ DOMAIN passes = {} /\ ledger.protected = {}
    BY <1>0, <2>2 DEF SearchOK, Acquisition!Complete, OfOneProposal
  <2>4. LedgerOK' /\ ledger'.protected = {}
    BY <1>0, <2>1, <2>3 DEF LedgerOK, Acquisition!Distinct, Acquisition!Rows
  <2>5. SearchOK'
    BY <1>0, <2>1, <2>2, <2>3, <2>4 DEF SearchOK, OfOneProposal, Acquisition!Distinct, Acquisition!Rows
  <2>6. RegistryOK' /\ PassesOK'
    BY <1>0, <2>2 DEF RegistryOK, PassesOK, PassOK, Queues, Acquisition!Verdicts, Acquisition!Rows
  <2> QED
    BY <2>4, <2>5, <2>6 DEF SelectedInv
(* A pass begins, is verified and is exported.                             *)
<1>p. ASSUME UNCHANGED <<status, decision, shortlist, proposal, ledger, asked>>, PassesOK',
             \A k \in DOMAIN passes :
                k \in DOMAIN passes' /\ Acquisition!Bucket(k, {"accept"}) \subseteq Acquisition!Bucket(k, {"accept"})',
             \A k \in DOMAIN passes' :
                \/ k \in DOMAIN passes /\ passes'[k].from = passes[k].from
                   /\ DOMAIN passes'[k].queue = DOMAIN passes[k].queue
                \/ passes'[k].from = proposal.from /\ DOMAIN passes'[k].queue \subseteq proposal.rows
                   /\ proposal.from # "none"
      PROVE  SelectedInv'
  <2>1. LedgerOK'
    BY <1>p, ChosenStays
  <2>2. RegistryOK'
    BY <1>0, <1>p DEF RegistryOK
  <2>3. shortlist.at = "none" => OfOneProposal'
    <3> SUFFICES ASSUME shortlist.at = "none" PROVE OfOneProposal'
      OBVIOUS
    <3>1. OfOneProposal
      BY <1>0 DEF SearchOK
    <3>2. \A k \in DOMAIN passes' :
            passes'[k].from # "external" /\ DOMAIN passes'[k].queue \subseteq proposal.rows
      BY <1>p, <3>1 DEF OfOneProposal
    <3>3. proposal.from = "none" => DOMAIN passes' = {}
      BY <1>p, <3>1 DEF OfOneProposal
    <3> QED
      BY <1>p, <3>1, <3>2, <3>3 DEF OfOneProposal, Acquisition!Distinct
  <2>4. SearchOK'
    BY <1>0, <1>p, <2>3 DEF SearchOK, Acquisition!Complete, Acquisition!ItemsOf, Acquisition!Rows
  <2> QED
    BY <1>p, <2>1, <2>2, <2>4 DEF SelectedInv
<1>2. CASE Acquisition!InitializeQueue
  <2>1. PICK some \in SUBSET proposal.rows :
          /\ some # {} /\ \A x \in Acquisition!AssetsOf(some) : status[x] = "reviewed_usable"
          /\ passes' = Append(passes, [from |-> proposal.from, queue |-> [r \in some |-> "pending"],
                                       exported |-> Null])
    BY <1>2 DEF Acquisition!InitializeQueue, Acquisition!Queueable
  <2> DEFINE new == [from |-> proposal.from, queue |-> [r \in some |-> "pending"], exported |-> Null]
             n == Len(passes) + 1
  <2>2. UNCHANGED <<status, decision, shortlist, proposal, ledger, asked>>
    BY <1>2 DEF Acquisition!InitializeQueue
  <2>3. /\ passes' = [k \in 1 .. n |-> IF k = n THEN new ELSE passes[k]] /\ n \in Nat /\ DOMAIN passes = 1 .. (n - 1)
        /\ Len(passes') = n
    <3>1. /\ Len(passes) \in Nat /\ passes = [k \in 1 .. Len(passes) |-> passes[k]]
      BY <1>0 DEF PassesOK
    <3> HIDE DEF new
    <3>2. passes \in Seq({passes[k] : k \in 1 .. Len(passes)} \cup {new})
      BY <3>1
    <3> QED
      BY <2>1, <3>1, <3>2 DEF new
  <2>4. ASSUME NEW p, p = new PROVE PassOK(p)'
    <3>1. \A r \in some : r \in Acquisition!Rows /\ decision[r[2]] = "usable"
      BY <1>0, <2>1 DEF SearchOK, RegistryOK, Acquisition!AssetsOf, Acquisition!Rows
    <3>2. p.queue \in Queues
      <4>1. some \in SUBSET Acquisition!Rows /\ p.queue \in [some -> Acquisition!Verdicts \cup {"pending"}]
        BY <2>4, <3>1
      <4> QED
        BY <4>1 DEF Queues
    <3> QED
      BY <2>1, <2>2, <2>4, <3>1, <3>2 DEF PassOK, Queues, Acquisition!Rows, Acquisition!Verdicts
  <2>5. PassesOK'
    <3> HIDE DEF new, n
    <3>1. ASSUME NEW k \in DOMAIN passes' PROVE PassOK(passes[k])'
      <4>1. CASE k = n
        BY <2>3, <2>4, <4>1
      <4>2. CASE k # n
        <5>1. PassOK(passes[k]) /\ passes'[k] = passes[k]
          BY <1>0, <2>3, <3>1, <4>2 DEF PassesOK
        <5> QED
          BY <2>2, <5>1, PassStays
      <4> QED
        BY <4>1, <4>2
    <3> QED
      BY <2>3, <3>1 DEF PassesOK
  <2>6. proposal.from # "none"
    BY <1>0, <1>2, <2>1 DEF SearchOK
  <2> QED
    BY <1>p, <2>2, <2>3, <2>5, <2>6 DEF Acquisition!Bucket
<1>r. ASSUME NEW k \in DOMAIN passes, NEW new, PassOK(new), new.from = passes[k].from,
             DOMAIN new.queue = DOMAIN passes[k].queue, passes' = [passes EXCEPT ![k] = new],
             passes[k].exported # Null =>
                new.exported # Null /\ \A s \in DOMAIN passes[k].exported : passes[k].exported[s] = "accept" =>
                                         s \in DOMAIN new.exported /\ new.exported[s] = "accept",
             UNCHANGED <<status, decision, shortlist, proposal, ledger, asked>>
      PROVE  SelectedInv'
  <2>1. /\ DOMAIN passes' = DOMAIN passes /\ DOMAIN passes = 1 .. Len(passes) /\ Len(passes) \in Nat
        /\ \A j \in DOMAIN passes : passes'[j] = IF j = k THEN new ELSE passes[j]
        /\ passes' = [j \in 1 .. Len(passes) |-> passes'[j]]
    BY <1>0, <1>r DEF PassesOK
  <2>2. Len(passes') = Len(passes)
    BY <2>1
  <2>3. ASSUME NEW j \in DOMAIN passes' PROVE PassOK(passes[j])'
    <3>1. PassOK(passes'[j])
      BY <1>0, <1>r, <2>1, <2>3 DEF PassesOK
    <3> QED
      BY <1>r, <3>1, PassStays
  <2>4. PassesOK'
    BY <2>1, <2>2, <2>3 DEF PassesOK
  <2>5. \A j \in DOMAIN passes : Acquisition!Bucket(j, {"accept"}) \subseteq Acquisition!Bucket(j, {"accept"})'
    BY <1>r, <2>1 DEF Acquisition!Bucket
  <2> QED
    BY <1>p, <1>r, <2>1, <2>4, <2>5
<1>3. ASSUME NEW k \in DOMAIN passes, NEW r \in DOMAIN passes[k].queue, NEW verdict \in Acquisition!Verdicts,
             Acquisition!Verify(k, r, verdict)
      PROVE  SelectedInv'
  <2> DEFINE p == passes[k]
             new == [from |-> p.from, queue |-> [p.queue EXCEPT ![r] = verdict], exported |-> p.exported]
  <2>1. PassOK(p) /\ p.queue[r] = "pending"
    BY <1>0, <1>3 DEF PassesOK, Acquisition!Verify
  <2>2. /\ UNCHANGED <<status, decision, shortlist, proposal, ledger, asked>>
        /\ passes' = [passes EXCEPT ![k] = new]
    <3>1. passes' = [passes EXCEPT ![k] = [p EXCEPT !.queue = [p.queue EXCEPT ![r] = verdict]]]
      BY <1>3 DEF Acquisition!Verify
    <3>2. p = [from |-> p.from, queue |-> p.queue, exported |-> p.exported]
      BY <2>1 DEF PassOK
    <3>3. [p EXCEPT !.queue = [p.queue EXCEPT ![r] = verdict]] = new
      <4> HIDE DEF p
      <4> QED
        BY <3>2
    <3> QED
      BY <1>3, <3>1, <3>3 DEF Acquisition!Verify
  <2>3. ASSUME NEW q, q = new PROVE PassOK(q)
    <3>1. PICK some \in SUBSET Acquisition!Rows : p.queue \in [some -> Acquisition!Verdicts \cup {"pending"}]
      BY <2>1 DEF PassOK, Queues
    <3>2. q.queue \in [some -> Acquisition!Verdicts \cup {"pending"}] /\ DOMAIN q.queue = DOMAIN p.queue
      BY <2>3, <3>1
    <3>3. q.queue \in Queues
      BY <3>1, <3>2 DEF Queues
    <3>4. q.exported # Null =>
             /\ DOMAIN q.exported = DOMAIN q.queue
             /\ \A s \in DOMAIN q.queue : q.exported[s] # "pending" => q.exported[s] = q.queue[s]
      BY <2>1, <2>3, <3>1, <3>2 DEF PassOK
    <3> QED
      BY <2>1, <2>3, <3>2, <3>3, <3>4 DEF PassOK
  <2>4. /\ PassOK(new) /\ new.from = p.from /\ new.exported = p.exported
        /\ DOMAIN new.queue = DOMAIN p.queue
    BY <2>3
  <2> HIDE DEF new
  <2>5. passes' = [passes EXCEPT ![k] = new] /\ UNCHANGED <<status, decision, shortlist, proposal, ledger, asked>>
    BY <2>2
  <2>6. new.exported # Null => \A s \in DOMAIN new.exported : new.exported[s] = "accept" => s \in DOMAIN new.exported
    OBVIOUS
  <2> QED
    BY <1>r, <2>4, <2>5, <2>6
<1>4. ASSUME NEW k \in DOMAIN passes, Acquisition!Export(k) PROVE SelectedInv'
  <2> DEFINE p == passes[k]
             new == [from |-> p.from, queue |-> p.queue, exported |-> p.queue]
  <2>1. PassOK(p)
    BY <1>0, <1>4 DEF PassesOK
  <2>2. /\ UNCHANGED <<status, decision, shortlist, proposal, ledger, asked>>
        /\ passes' = [passes EXCEPT ![k] = new]
    <3>1. passes' = [passes EXCEPT ![k] = [p EXCEPT !.exported = p.queue]]
      BY <1>4 DEF Acquisition!Export
    <3>2. p = [from |-> p.from, queue |-> p.queue, exported |-> p.exported]
      BY <2>1 DEF PassOK
    <3>3. [p EXCEPT !.exported = p.queue] = new
      <4> HIDE DEF p
      <4> QED
        BY <3>2
    <3> QED
      BY <1>4, <3>1, <3>3 DEF Acquisition!Export
  <2>3. ASSUME NEW q, q = new PROVE PassOK(q)
    BY <2>1, <2>3 DEF PassOK
  <2>4. ASSUME p.exported # Null
        PROVE  new.exported # Null /\ \A s \in DOMAIN p.exported : p.exported[s] = "accept" =>
                                         s \in DOMAIN new.exported /\ new.exported[s] = "accept"
    <3>1. p.queue # Null
      BY <2>1 DEF PassOK
    <3> QED
      BY <2>1, <2>4, <3>1 DEF PassOK
  <2>5. PassOK(new) /\ new.from = p.from /\ DOMAIN new.queue = DOMAIN p.queue
    BY <2>3
  <2> HIDE DEF new
  <2>6. passes' = [passes EXCEPT ![k] = new] /\ UNCHANGED <<status, decision, shortlist, proposal, ledger, asked>>
    BY <2>2
  <2> QED
    BY <1>r, <2>4, <2>5, <2>6
(* The verified rows of the registry's proposal are folded in.             *)
<1>5. ASSUME NEW k \in DOMAIN passes, Acquisition!Reconcile(k) PROVE SelectedInv'
  <2> DEFINE accepted == Acquisition!Bucket(k, {"accept"})
             refused == Acquisition!ItemsOf(Acquisition!Bucket(k, {"reject", "uncertain"}))
  <2>1. /\ ledger' = [ledger EXCEPT !.protected = @ \cup accepted, !.external = @ \cup refused]
        /\ UNCHANGED <<status, decision, shortlist, proposal, passes, asked>>
    BY <1>5 DEF Acquisition!Reconcile
  <2>2. ~Acquisition!Complete
    BY <1>5, NoneAfterwards
  <2>3. shortlist.at = "none" /\ asked = {} /\ OfOneProposal
    BY <1>0, <2>2 DEF SearchOK
  <2>4. PassOK(passes[k]) /\ DOMAIN passes[k].queue \subseteq proposal.rows
    BY <1>0, <2>3 DEF PassesOK, OfOneProposal
  <2>5. accepted \subseteq proposal.rows /\ refused \subseteq Items
    BY <1>0, <2>4 DEF Acquisition!Bucket, PassOK, SearchOK, Acquisition!Rows, Acquisition!ItemsOf
  <2>6. \A r \in accepted : Chosen(r)
    BY <2>4 DEF Chosen, Acquisition!Bucket, PassOK
  <2> HIDE DEF accepted, refused
  <2>7. ledger' = [protected |-> ledger.protected \cup accepted, external |-> ledger.external \cup refused,
                   dispositions |-> ledger.dispositions]
    BY <1>0, <2>1 DEF LedgerOK
  <2>8. ledger'.protected \subseteq proposal.rows
    BY <2>3, <2>5, <2>7 DEF OfOneProposal
  <2>9. \A r \in ledger.protected \cup accepted : Chosen(r)
    BY <1>0, <2>6 DEF LedgerOK
  <2>10. \A r \in ledger'.protected : Chosen(r)'
    BY <2>1, <2>7, <2>9 DEF Chosen, Acquisition!Bucket
  <2>11. LedgerOK'
    BY <1>0, <2>3, <2>5, <2>7, <2>8, <2>10 DEF LedgerOK, SearchOK, OfOneProposal, Acquisition!Distinct, Acquisition!Rows
  <2>12. proposal.from # "none"
    BY <1>5, <2>3 DEF OfOneProposal
  <2>13. OfOneProposal'
    BY <2>1, <2>3, <2>8, <2>12 DEF OfOneProposal, Acquisition!Distinct
  <2>14. SearchOK'
    BY <1>0, <2>1, <2>3, <2>13 DEF SearchOK, Acquisition!Rows
  <2>15. RegistryOK' /\ PassesOK'
    BY <1>0, <2>1 DEF RegistryOK, PassesOK, PassOK, Queues, Acquisition!Verdicts, Acquisition!Rows
  <2> QED
    BY <2>11, <2>14, <2>15 DEF SelectedInv
(* Images of other datasets are listed, fetched, inspected and reviewed.   *)
<1>s. ASSUME UNCHANGED <<passes, ledger, asked>>, RegistryOK',
             \A x \in Assets : decision[x] = "usable" => decision'[x] = "usable",
             shortlist' = [rows |-> shortlist'.rows, at |-> shortlist'.at], shortlist'.rows \subseteq Acquisition!Rows,
             proposal' = [rows |-> proposal'.rows, from |-> proposal'.from], proposal'.rows \subseteq Acquisition!Rows,
             proposal' = proposal \/ proposal'.from = "external", Acquisition!Complete, shortlist'.at # "none"
      PROVE  SelectedInv'
  <2>1. PassesOK'
    <3>1. ASSUME NEW k \in DOMAIN passes PROVE PassOK(passes[k])'
      <4>1. PassOK(passes[k])
        BY <1>0, <3>1 DEF PassesOK
      <4> DEFINE p == passes[k]
      <4>2. passes'[k] = p
        BY <1>s
      <4> QED
        BY <1>s, <4>1, <4>2, PassStays
    <3> QED
      BY <1>0, <1>s, <3>1 DEF PassesOK
  <2>2. LedgerOK'
    BY <1>s, <2>1, ChosenStays DEF Acquisition!Bucket
  <2>3. Acquisition!Complete'
    BY <1>s DEF Acquisition!Complete, Acquisition!ItemsOf
  <2>4. SearchOK'
    BY <1>0, <1>s, <2>3 DEF SearchOK, Acquisition!Rows, Acquisition!Complete
  <2> QED
    BY <1>s, <2>1, <2>2, <2>4 DEF SelectedInv
<1>6. CASE Acquisition!OpenImagesShortlist \/ Acquisition!CocoShortlist
  <2>1. PICK some \in SUBSET Acquisition!Rows : shortlist' = [rows |-> some, at |-> "found"]
    <3>1. Acquisition!OpenImages \subseteq Acquisition!Rows /\ Acquisition!CocoImages \subseteq Acquisition!Rows
      <4>1. ledger.external \subseteq Items
        BY <1>0 DEF LedgerOK
      <4> QED
        BY <4>1 DEF Acquisition!OpenImages, Acquisition!CocoImages, Acquisition!Rows
    <3>2. \E some \in (SUBSET Acquisition!OpenImages) \cup (SUBSET Acquisition!CocoImages) :
             shortlist' = [rows |-> some, at |-> "found"]
      BY <1>6 DEF Acquisition!OpenImagesShortlist, Acquisition!CocoShortlist, Acquisition!Discover
    <3> QED
      BY <3>1, <3>2
  <2>2. Acquisition!Complete /\ UNCHANGED <<status, decision, proposal, passes, ledger, asked>>
    BY <1>6 DEF Acquisition!OpenImagesShortlist, Acquisition!CocoShortlist, Acquisition!Discover
  <2>3. RegistryOK'
    BY <1>0, <2>2 DEF RegistryOK
  <2>4. proposal' = [rows |-> proposal'.rows, from |-> proposal'.from] /\ proposal'.rows \subseteq Acquisition!Rows
    BY <1>0, <2>2 DEF SearchOK
  <2> QED
    BY <1>s, <2>1, <2>2, <2>3, <2>4
<1>7. CASE Acquisition!Admit \/ Acquisition!DownloadSelection \/ Acquisition!InspectSelection \/ Acquisition!FinalizeReview
  <2>1. PICK at : shortlist' = [shortlist EXCEPT !.at = at] /\ at # "none"
    BY <1>7 DEF Acquisition!Admit, Acquisition!DownloadSelection, Acquisition!InspectSelection, Acquisition!FinalizeReview
  <2>2. UNCHANGED <<proposal, passes, ledger, asked>> /\ shortlist.at # "none"
    BY <1>7 DEF Acquisition!Admit, Acquisition!DownloadSelection, Acquisition!InspectSelection, Acquisition!FinalizeReview
  <2>3. RegistryOK' /\ \A x \in Assets : decision[x] = "usable" => decision'[x] = "usable"
    <3>1. CASE Acquisition!Admit
      BY <1>0, <3>1 DEF Acquisition!Admit, RegistryOK
    <3>2. CASE Acquisition!DownloadSelection
      BY <1>0, <3>2 DEF Acquisition!DownloadSelection, RegistryOK
    <3>3. CASE Acquisition!InspectSelection
      BY <1>0, <3>3 DEF Acquisition!InspectSelection, RegistryOK
    <3>4. CASE Acquisition!FinalizeReview
      BY <1>0, <3>4 DEF Acquisition!FinalizeReview, RegistryOK
    <3> QED
      BY <1>7, <3>1, <3>2, <3>3, <3>4
  <2>4. /\ shortlist' = [rows |-> shortlist.rows, at |-> at] /\ shortlist.rows \subseteq Acquisition!Rows
        /\ Acquisition!Complete
        /\ proposal' = [rows |-> proposal'.rows, from |-> proposal'.from] /\ proposal'.rows \subseteq Acquisition!Rows
    BY <1>0, <2>1, <2>2 DEF SearchOK
  <2> QED
    BY <1>s, <2>1, <2>2, <2>3, <2>4
<1>8. CASE Acquisition!BuildProposal
  <2>1. PICK some : some \subseteq Acquisition!Rows /\ proposal' = [rows |-> some, from |-> "external"]
    BY <1>8, AssignmentDistinct DEF Acquisition!BuildProposal
  <2>2. UNCHANGED <<status, decision, shortlist, passes, ledger, asked>> /\ shortlist.at # "none"
    BY <1>8 DEF Acquisition!BuildProposal
  <2>3. RegistryOK'
    BY <1>0, <2>2 DEF RegistryOK
  <2>4. /\ shortlist = [rows |-> shortlist.rows, at |-> shortlist.at] /\ shortlist.rows \subseteq Acquisition!Rows
        /\ Acquisition!Complete
    BY <1>0, <2>2 DEF SearchOK
  <2> QED
    BY <1>s, <2>1, <2>2, <2>3, <2>4
(* Verified rows of other datasets are folded in.                          *)
<1>9. ASSUME NEW round \in SUBSET DOMAIN passes, Acquisition!ReconcileRound(round) PROVE SelectedInv'
  <2> DEFINE accepts == Acquisition!Accepts(round)
             some == Acquisition!RowsIn(accepts)
  <2>1. /\ ledger' = [ledger EXCEPT !.protected = @ \cup some, !.external = @ \ Acquisition!ItemsOf(some)]
        /\ ledger' # ledger /\ UNCHANGED <<status, decision, shortlist, proposal, passes, asked>>
        /\ ~Acquisition!Repeats(accepts) /\ ~Acquisition!OverlapsProtected(accepts)
        /\ \A k \in round : passes[k].from = "external"
    BY <1>9 DEF Acquisition!ReconcileRound
  <2>2. \A r \in some : \E x \in accepts : x[2] = r
    BY DEF Acquisition!RowsIn
  <2>3. \A r \in some : \E k \in DOMAIN passes : r \in Acquisition!Bucket(k, {"accept"})
    BY DEF Acquisition!RowsIn, Acquisition!Accepts
  <2>4. ASSUME NEW r \in some PROVE r \in Acquisition!Rows /\ Chosen(r)
    <3>1. PICK k \in DOMAIN passes : r \in Acquisition!Bucket(k, {"accept"})
      BY <2>3
    <3>2. PassOK(passes[k]) /\ r \in DOMAIN passes[k].queue
      BY <1>0, <3>1 DEF PassesOK, PassOK, Acquisition!Bucket
    <3> QED
      BY <3>1, <3>2 DEF PassOK, Queues, Chosen
  <2>5. \A r, s \in some : r # s => r[1] # s[1] /\ r[2] # s[2]
    BY <2>1, <2>2 DEF Acquisition!Repeats
  <2>6. \A r \in ledger.protected, s \in some : r[1] # s[1] /\ r[2] # s[2]
    BY <2>1 DEF Acquisition!OverlapsProtected, Acquisition!ItemsOf, Acquisition!AssetsOf
  <2>7. some = {} \/ shortlist.at # "none"
    <3>1. shortlist.at = "none" => round = {}
      BY <1>0, <2>1 DEF SearchOK, OfOneProposal
    <3>2. round = {} => some = {}
      BY DEF Acquisition!RowsIn, Acquisition!Accepts
    <3> QED
      BY <3>1, <3>2
  <2> HIDE DEF some, accepts
  <2>8. ledger' = [protected |-> ledger.protected \cup some, external |-> ledger.external \ Acquisition!ItemsOf(some),
                   dispositions |-> ledger.dispositions]
    BY <1>0, <2>1 DEF LedgerOK
  <2>9. some # {}
    <3>1. some = {} => ledger' = ledger
      <4>1. some = {} => ledger.protected \cup some = ledger.protected
                         /\ ledger.external \ Acquisition!ItemsOf(some) = ledger.external
        BY DEF Acquisition!ItemsOf
      <4> QED
        BY <1>0, <2>8, <4>1 DEF LedgerOK
    <3> QED
      BY <2>1, <3>1
  <2>10. Acquisition!Complete
    BY <1>0, <2>7, <2>9 DEF SearchOK
  <2>11. \A r \in ledger'.protected : Chosen(r)'
    <3>1. \A r \in ledger.protected \cup some : Chosen(r)
      BY <1>0, <2>4 DEF LedgerOK
    <3> QED
      BY <2>1, <2>8, <3>1 DEF Chosen, Acquisition!Bucket
  <2>13. LedgerOK'
    <3>1. Acquisition!Distinct(ledger.protected)
      BY <1>0 DEF LedgerOK
    <3>2. \A r, s \in ledger.protected \cup some : r # s => r[1] # s[1] /\ r[2] # s[2]
      BY <2>5, <2>6, <3>1 DEF Acquisition!Distinct
    <3>3. ledger.protected \cup some \subseteq Acquisition!Rows /\ ledger.external \subseteq Items
          /\ ledger.dispositions \subseteq Items
      BY <1>0, <2>4 DEF LedgerOK
    <3> QED
      BY <2>8, <2>11, <3>2, <3>3 DEF LedgerOK, Acquisition!Distinct, Acquisition!Rows
  <2>14. Acquisition!Complete'
    <3>1. Acquisition!ItemsOf(ledger.protected \cup some)
            = Acquisition!ItemsOf(ledger.protected) \cup Acquisition!ItemsOf(some)
      BY DEF Acquisition!ItemsOf
    <3>2. Acquisition!ItemsOf(some) \subseteq Items
      BY <2>4 DEF Acquisition!ItemsOf, Acquisition!Rows
    <3>3. Acquisition!Complete' = /\ proposal.from # "none"
                                  /\ Acquisition!ItemsOf(ledger'.protected) \cup ledger'.external \cup ledger'.dispositions
                                        = Items
      BY <2>1 DEF Acquisition!Complete, Acquisition!ItemsOf
    <3> QED
      BY <2>8, <2>10, <3>1, <3>2, <3>3 DEF Acquisition!Complete
  <2>15. SearchOK'
    BY <1>0, <2>1, <2>7, <2>8, <2>9, <2>14 DEF SearchOK, Acquisition!Rows
  <2>16. RegistryOK' /\ PassesOK'
    BY <1>0, <2>1 DEF RegistryOK, PassesOK, PassOK, Queues, Acquisition!Verdicts, Acquisition!Rows
  <2> QED
    BY <2>13, <2>15, <2>16 DEF SelectedInv
(* Items without an image are classified.                                  *)
<1>10. CASE Acquisition!Reassess
  <2>1. asked' = ledger.external /\ Acquisition!Complete /\ UNCHANGED <<status, decision, shortlist, proposal, passes, ledger>>
    BY <1>10 DEF Acquisition!Reassess
  <2>2. RegistryOK' /\ PassesOK' /\ LedgerOK'
    BY <1>0, <2>1 DEF RegistryOK, PassesOK, PassOK, Queues, LedgerOK, Chosen, Acquisition!Bucket, Acquisition!Distinct,
       Acquisition!Verdicts, Acquisition!Rows
  <2>3. SearchOK'
    BY <1>0, <2>1 DEF SearchOK, LedgerOK, OfOneProposal, Acquisition!Complete, Acquisition!ItemsOf, Acquisition!Distinct, Acquisition!Rows
  <2> QED
    BY <2>2, <2>3 DEF SelectedInv
<1>11. CASE Acquisition!ReconcileBoundary
  <2>1. PICK single \in SUBSET asked :
          ledger' = [ledger EXCEPT !.external = single, !.dispositions = @ \cup (asked \ single)]
    BY <1>11 DEF Acquisition!ReconcileBoundary
  <2>2. asked # {} /\ asked' = {} /\ UNCHANGED <<status, decision, shortlist, proposal, passes>>
    BY <1>11 DEF Acquisition!ReconcileBoundary
  <2>3. Acquisition!Complete /\ ledger.external \subseteq asked /\ asked \subseteq Items
    BY <1>0, <2>2 DEF SearchOK
  <2>4. ledger' = [protected |-> ledger.protected, external |-> single,
                   dispositions |-> ledger.dispositions \cup (asked \ single)]
    BY <1>0, <2>1 DEF LedgerOK
  <2>5. RegistryOK' /\ PassesOK'
    BY <1>0, <2>2 DEF RegistryOK, PassesOK, PassOK, Queues, Acquisition!Verdicts, Acquisition!Rows
  <2>6. LedgerOK'
    BY <1>0, <2>2, <2>3, <2>4 DEF LedgerOK, Chosen, Acquisition!Bucket, Acquisition!Distinct, Acquisition!Rows
  <2>7. Acquisition!Complete'
    BY <2>2, <2>3, <2>4 DEF Acquisition!Complete, Acquisition!ItemsOf
  <2>8. SearchOK'
    BY <1>0, <2>2, <2>4, <2>7 DEF SearchOK, OfOneProposal, Acquisition!Distinct, Acquisition!Rows
  <2> QED
    BY <2>5, <2>6, <2>8 DEF SelectedInv
<1>12. CASE UNCHANGED Acquisition!vars
  <2>1. RegistryOK' /\ PassesOK' /\ LedgerOK'
    BY <1>0, <1>12 DEF RegistryOK, PassesOK, PassOK, Queues, LedgerOK, Chosen, Acquisition!Bucket, Acquisition!Distinct,
       Acquisition!Verdicts, Acquisition!Rows, Acquisition!vars
  <2>2. SearchOK'
    BY <1>0, <1>12 DEF SearchOK, OfOneProposal, Acquisition!Complete, Acquisition!ItemsOf, Acquisition!Distinct,
       Acquisition!Rows, Acquisition!vars
  <2> QED
    BY <2>1, <2>2 DEF SelectedInv
<1> QED
  BY <1>1, <1>2, <1>3, <1>4, <1>5, <1>6, <1>7, <1>8, <1>9, <1>10, <1>11, <1>12 DEF Acquisition!Next, Acquisition!Pass

(* SelectionsDistinct: no image is protected for two items nor an item     *)
(* twice, and each selection was accepted on pixels that the corpus review *)
(* found usable, however the commands of the registry's tools are ordered  *)
(* and however old the files are that they read                            *)
(* (image_registry/reconciliation.py, external_selection.py).              *)
THEOREM SelectionsCorrect ==
  ASSUME Items \subseteq Int, Coco \subseteq Assets, Null # "usable", Null \notin Queues
  PROVE  Acquisition!Spec => []Acquisition!SelectionsDistinct
<1>1. Acquisition!Init => SelectedInv
  <2> SUFFICES ASSUME Acquisition!Init PROVE SelectedInv
    OBVIOUS
  <2> USE DEF Acquisition!Init
  <2>1. DOMAIN passes = {} /\ Len(passes) = 0 /\ passes = [k \in 1 .. Len(passes) |-> passes[k]]
    OBVIOUS
  <2>2. RegistryOK
    BY DEF RegistryOK
  <2>3. PassesOK
    BY <2>1 DEF PassesOK
  <2>4. SearchOK
    BY <2>1 DEF SearchOK, OfOneProposal, Acquisition!Distinct
  <2>5. LedgerOK
    BY DEF LedgerOK, Acquisition!Distinct
  <2> QED
    BY <2>2, <2>3, <2>4, <2>5 DEF SelectedInv
<1>2. SelectedInv /\ [Acquisition!Next]_(Acquisition!vars) => SelectedInv'
  BY SelectedStep
<1>3. SelectedInv => Acquisition!SelectionsDistinct
  BY DEF SelectedInv, LedgerOK, Chosen, Acquisition!SelectionsDistinct
<1> QED
  BY <1>1, <1>2, <1>3, PTL DEF Acquisition!Spec

-----------------------------------------------------------------------------
(* The images of words: a round is folded into the accepted slots.         *)

Loop == INSTANCE WordLoop

\* The queues of second reviews that there are, and those that settle whether an image is usable.
Cascades == {"watermark", "usability", "word_fit", "sol"}
Settling == {"watermark", "usability"} \cap Cascade

(* A review that is pending says nothing else, a second review says one    *)
(* thing, and there is one only where the first review raised its alarm.   *)
ReviewsOK ==
  /\ DOMAIN queue = Loop!Queue /\ \A q \in Loop!Queue : DOMAIN queue[q] = Cand
  /\ \A q \in Loop!Queue, c \in Cand :
        \A answer \in {"pending", "retryable", "fatal"} : answer \in queue[q][c] => queue[q][c] = {answer}
  /\ \A q \in Settling, c \in Cand :
        /\ \A x, y \in queue[q][c] : x = y
        /\ queue[q][c] # {} => Loop!Alarm[q] \in queue["semantic"][c]

(* What the export went by of a candidate: it stays, whatever the workers  *)
(* still review.                                                           *)
Kept(c) ==
  /\ queue["semantic"][c] \cap {"fit", "word?"} # {}
  /\ Loop!Says("semantic", c, "overlay?") => Loop!Says("watermark", c, "in_scene")
  /\ Loop!Says("semantic", c, "unusable?") => Loop!Says("usability", c, "usable")

(* What was exported is kept until it is folded in, and what the registry  *)
(* has recorded by then is that it is usable.                              *)
TakenOK ==
  /\ proc.taken \subseteq Cand
  /\ proc.pc \in {"preview", "apply", "record", "conclude"} =>
        /\ state.phase = "round_finalize"
        /\ \A c \in proc.taken : Kept(c)
        /\ proc.pc = "conclude" /\ state.mode = "external" => \A c \in proc.taken : image[c] = "usable"

UsableInv ==
  /\ DOMAIN image = Cand
  /\ proc = [pc |-> proc.pc, named |-> proc.named, seen |-> proc.seen, taken |-> proc.taken, counts |-> proc.counts]
  /\ DOMAIN state = {"phase", "round", "mode", "residual", "noProgress", "low", "reason", "errors"}
  /\ ReviewsOK /\ TakenOK

(* The registry makes of such a candidate a usable image.                  *)
LEMMA KeptIsUsable ==
  ASSUME ReviewsOK, Cascade \subseteq Cascades, NEW c \in Cand, Kept(c) PROVE Loop!Admission(c) = "usable"
<1>1. ~ queue["semantic"][c] \in {{}, {"unreviewable"}}
  BY DEF Kept
<1>2. ~Loop!Says("watermark", c, "overlay") /\ ~Loop!Says("watermark", c, "uncertain")
  <2>1. CASE "watermark" \in Cascade
    <3>1. queue["watermark"][c] # {} => "overlay?" \in queue["semantic"][c]
      BY <2>1 DEF ReviewsOK, Settling, Loop!Alarm
    <3>2. \A x, y \in queue["watermark"][c] : x = y
      BY <2>1 DEF ReviewsOK, Settling
    <3> QED
      BY <3>1, <3>2 DEF Kept, Loop!Says, Loop!Queue
  <2>2. CASE "watermark" \notin Cascade
    BY <2>2 DEF Loop!Says, Loop!Queue
  <2> QED
    BY <2>1, <2>2
<1> QED
  BY <1>1, <1>2 DEF Kept, Loop!Admission

(* A worker's step: one review is settled, or some are asked for.          *)
LEMMA KeptStays ==
  ASSUME ReviewsOK, ReviewsOK', NEW c \in Cand, Kept(c),
         \A q \in Loop!Queue : queue'[q][c] = queue[q][c] \/ queue[q][c] \in {{}, {"pending"}}
  PROVE  Kept(c)'
<1>1. "semantic" \in Loop!Queue
  BY DEF Loop!Queue
<1>2. queue'["semantic"][c] = queue["semantic"][c]
  BY <1>1 DEF Kept
<1>3. \A q \in Loop!Queue, x \in {"in_scene", "usable"} : x \in queue[q][c] => x \in queue'[q][c]
  OBVIOUS
<1> QED
  BY <1>2, <1>3 DEF Kept, Loop!Says, Loop!Queue

(* A worker goes on, while the controller does nothing.                    *)
LEMMA WorkerGoesOn ==
  ASSUME UsableInv, ReviewsOK', UNCHANGED <<state, proc, image>>,
         \A q \in Loop!Queue, c \in Cand : queue'[q][c] = queue[q][c] \/ queue[q][c] \in {{}, {"pending"}}
  PROVE  UsableInv'
<1>1. \A c \in Cand : Kept(c) => Kept(c)'
  BY KeptStays DEF UsableInv
<1>2. TakenOK'
  BY <1>1 DEF UsableInv, TakenOK
<1> QED
  BY <1>2 DEF UsableInv

LEMMA SyncedOK ==
  ASSUME ReviewsOK, Cascade \subseteq Cascades, NEW queues, queue' = Loop!Synced(queues), queues \subseteq Cascade
  PROVE  /\ ReviewsOK'
         /\ \A q \in Loop!Queue, c \in Cand : queue'[q][c] = queue[q][c] \/ queue[q][c] \in {{}, {"pending"}}
<1>1. ASSUME NEW q \in Loop!Queue, NEW c \in Cand
      PROVE  \/ queue'[q][c] = queue[q][c]
             \/ queue[q][c] = {} /\ queue'[q][c] = {"pending"} /\ q \in Cascade
                /\ Loop!Alarm[q] \in queue[Loop!Source(q)][c]
  BY DEF Loop!Synced, Loop!Unsynced
<1>2. DOMAIN queue' = Loop!Queue /\ \A q \in Loop!Queue : DOMAIN queue'[q] = Cand
  BY DEF Loop!Synced
<1>3. "semantic" \in Loop!Queue /\ "semantic" \notin Cascade
  BY DEF Loop!Queue, Cascades
<1>4. \A c \in Cand : queue'["semantic"][c] = queue["semantic"][c]
  BY <1>1, <1>3
<1>5. \A q \in Settling : q \in Loop!Queue /\ Loop!Source(q) = "semantic"
  BY DEF Settling, Loop!Queue, Loop!Source
<1>6. ASSUME NEW q \in Settling, NEW c \in Cand
      PROVE  /\ \A x, y \in queue'[q][c] : x = y
             /\ queue'[q][c] # {} => Loop!Alarm[q] \in queue'["semantic"][c]
  BY <1>1, <1>4, <1>5 DEF ReviewsOK
<1>7. ASSUME NEW q \in Loop!Queue, NEW c \in Cand, NEW answer \in {"pending", "retryable", "fatal"}, answer \in queue'[q][c]
      PROVE  queue'[q][c] = {answer}
  BY <1>1, <1>7 DEF ReviewsOK
<1> QED
  BY <1>1, <1>2, <1>6, <1>7 DEF ReviewsOK, Loop!Queue, Settling

(* One review that is pending gets a result, or fails.                     *)
LEMMA ReviewedOK ==
  ASSUME ReviewsOK, Cascade \subseteq Cascades, NEW q \in Loop!Queue, NEW c \in Loop!In(q, {"pending"}), NEW r,
         queue' = [queue EXCEPT ![q][c] = r], r \in Loop!Result[q] \cup {{"retryable"}, {"fatal"}}
  PROVE  /\ ReviewsOK'
         /\ \A p \in Loop!Queue, d \in Cand : queue'[p][d] = queue[p][d] \/ queue[p][d] \in {{}, {"pending"}}
<1>1. c \in Cand /\ queue[q][c] = {"pending"}
  BY DEF Loop!In, ReviewsOK
<1>2. \A p \in Loop!Queue, d \in Cand : queue'[p][d] = IF p = q /\ d = c THEN r ELSE queue[p][d]
  BY <1>1 DEF ReviewsOK
<1>3. DOMAIN queue' = Loop!Queue /\ \A p \in Loop!Queue : DOMAIN queue'[p] = Cand
  BY <1>1 DEF ReviewsOK
<1>4. q \in Cascades => \A x, y \in r : x = y
  BY DEF Loop!Result, Cascades
<1>5. \A answer \in {"pending", "retryable", "fatal"} : answer \in r => r = {answer}
  <2>1. CASE q = "semantic"
    BY <2>1 DEF Loop!Result, Loop!Alarm, Cascades
  <2>2. CASE q \in Cascades
    BY <2>2 DEF Loop!Result, Cascades
  <2> QED
    BY <2>1, <2>2 DEF Loop!Queue
<1>6. "semantic" \in Loop!Queue /\ "semantic" \notin Cascades /\ \A p \in Settling : p \in Cascades /\ p \in Loop!Queue
  BY DEF Loop!Queue, Cascades, Settling
<1>7. q = "semantic" => \A p \in Settling : queue[p][c] = {}
  BY <1>1 DEF ReviewsOK, Loop!Alarm, Settling
<1>8. ASSUME NEW p \in Settling, NEW d \in Cand
      PROVE  /\ \A x, y \in queue'[p][d] : x = y
             /\ queue'[p][d] # {} => Loop!Alarm[p] \in queue'["semantic"][d]
  <2>1. /\ \A x, y \in queue[p][d] : x = y
        /\ queue[p][d] # {} => Loop!Alarm[p] \in queue["semantic"][d]
    BY DEF ReviewsOK
  <2> QED
    BY <1>1, <1>2, <1>4, <1>6, <1>7, <2>1
<1>9. ASSUME NEW p \in Loop!Queue, NEW d \in Cand, NEW answer \in {"pending", "retryable", "fatal"}, answer \in queue'[p][d]
      PROVE  queue'[p][d] = {answer}
  BY <1>2, <1>5, <1>9 DEF ReviewsOK
<1> QED
  BY <1>1, <1>2, <1>3, <1>8, <1>9 DEF ReviewsOK, Loop!Queue, Settling

(* Failed reviews are put back, or given up.                               *)
LEMMA RequeuedOK ==
  ASSUME ReviewsOK, Cascade \subseteq Cascades, queue' = Loop!Requeued PROVE ReviewsOK'
<1>1. ASSUME NEW q \in Loop!Queue, NEW c \in Cand
      PROVE  \/ queue'[q][c] = queue[q][c]
             \/ queue[q][c] = {"retryable"} /\ queue'[q][c] \in {{"pending"}, {"unreviewable"}}
  BY DEF Loop!Requeued
<1>2. DOMAIN queue' = Loop!Queue /\ \A q \in Loop!Queue : DOMAIN queue'[q] = Cand
  BY DEF Loop!Requeued
<1>3. "semantic" \in Loop!Queue /\ \A p \in Settling : p \in Loop!Queue
  BY DEF Loop!Queue, Settling
<1>4. ASSUME NEW p \in Settling, NEW c \in Cand
      PROVE  /\ \A x, y \in queue'[p][c] : x = y
             /\ queue'[p][c] # {} => Loop!Alarm[p] \in queue'["semantic"][c]
  <2>1. /\ \A x, y \in queue[p][c] : x = y
        /\ queue[p][c] # {} => Loop!Alarm[p] \in queue["semantic"][c]
    BY DEF ReviewsOK
  <2>2. Loop!Alarm[p] # "retryable"
    BY DEF Settling, Loop!Alarm
  <2> QED
    BY <1>1, <1>3, <2>1, <2>2
<1>5. ASSUME NEW q \in Loop!Queue, NEW c \in Cand, NEW answer \in {"pending", "retryable", "fatal"}, answer \in queue'[q][c]
      PROVE  queue'[q][c] = {answer}
  BY <1>1, <1>5 DEF ReviewsOK
<1> QED
  BY <1>2, <1>4, <1>5 DEF ReviewsOK, Loop!Queue, Settling

LEMMA ReviewsStay ==
  ASSUME ReviewsOK, UNCHANGED queue PROVE ReviewsOK'
<1>1. Loop!Queue' = Loop!Queue /\ Settling' = Settling /\ Loop!Alarm' = Loop!Alarm
  BY DEF Loop!Queue, Settling, Loop!Alarm
<1> QED
  BY <1>1 DEF ReviewsOK

Late == {"preview", "apply", "record", "conclude"}

LEMMA UsableStep ==
  ASSUME UsableInv, Cascade \subseteq Cascades, [Loop!Next]_(Loop!vars) PROVE UsableInv'
<1>0. ReviewsOK /\ TakenOK
  BY DEF UsableInv
(* The controller is not folding a round in.                               *)
<1>e. ASSUME NEW pc, pc \notin Late, ReviewsOK', DOMAIN image' = Cand,
             DOMAIN state' = {"phase", "round", "mode", "residual", "noProgress", "low", "reason", "errors"},
             proc' = [pc |-> pc, named |-> proc'.named, seen |-> proc'.seen, taken |-> proc'.taken, counts |-> proc'.counts],
             proc'.taken \in {{}, proc.taken}
      PROVE  UsableInv'
  <2>1. proc'.pc = pc
    BY <1>e
  <2>2. TakenOK'
    BY <1>0, <1>e, <2>1 DEF TakenOK, Late
  <2> QED
    BY <1>e, <2>1, <2>2 DEF UsableInv
<1>q. UNCHANGED queue => ReviewsOK'
  BY <1>0, ReviewsStay
<1>i. /\ Loop!Idle = [pc |-> "idle", named |-> FALSE, seen |-> <<>>, taken |-> {}, counts |-> <<0, 0>>]
      /\ Loop!Down = [pc |-> "down", named |-> FALSE, seen |-> <<>>, taken |-> {}, counts |-> <<0, 0>>]
  <2>1. Loop!Down = [pc |-> "down", named |-> FALSE, seen |-> <<>>, taken |-> {}, counts |-> <<0, 0>>]
    BY DEF Loop!Down
  <2>2. Loop!Idle = [Loop!Down EXCEPT !.pc = "idle"]
    BY DEF Loop!Idle
  <2> QED
    BY <2>1, <2>2
<1>1. CASE Loop!LocalDiscover \/ Loop!ExternalDiscover \/ Loop!ExternalDownload
  <2>1. proc' = proc /\ proc.pc = "idle" /\ UNCHANGED <<queue, image>>
    BY <1>1 DEF Loop!LocalDiscover, Loop!ExternalDiscover, Loop!ExternalDownload, Loop!At
  <2>2. DOMAIN state' = DOMAIN state
    BY <1>1 DEF Loop!LocalDiscover, Loop!ExternalDiscover, Loop!ExternalDownload, Loop!Phase, Loop!Stop
  <2> QED
    BY <1>e, <1>q, <2>1, <2>2 DEF UsableInv, Late
<1>2. CASE Loop!PrepareReview
  <2>1. /\ proc' = [proc EXCEPT !.pc = "prepared"] /\ UNCHANGED <<state, image>>
        /\ \/ queue' = queue
           \/ queue = Loop!NoQueue /\ \E C \in SUBSET Cand :
                queue' = [queue EXCEPT !["semantic"] = [c \in Cand |-> IF c \in C THEN {"pending"} ELSE {}]]
    BY <1>2 DEF Loop!PrepareReview
  <2>2. ReviewsOK'
    <3>1. "semantic" \in Loop!Queue /\ \A q \in Settling : q \in Loop!Queue /\ q # "semantic"
      BY DEF Loop!Queue, Settling
    <3>2. ASSUME NEW C \in SUBSET Cand, queue = Loop!NoQueue,
                 queue' = [queue EXCEPT !["semantic"] = [c \in Cand |-> IF c \in C THEN {"pending"} ELSE {}]]
          PROVE  ReviewsOK'
      <4>1. \A q \in Loop!Queue, c \in Cand :
               queue'[q][c] = IF q = "semantic" /\ c \in C THEN {"pending"} ELSE {}
        BY <3>1, <3>2 DEF Loop!NoQueue
      <4>2. DOMAIN queue' = Loop!Queue /\ \A q \in Loop!Queue : DOMAIN queue'[q] = Cand
        BY <3>1, <3>2 DEF Loop!NoQueue
      <4>3. \A q \in Settling, c \in Cand : queue'[q][c] = {}
        BY <3>1, <4>1
      <4> QED
        BY <4>1, <4>2, <4>3 DEF ReviewsOK, Loop!Queue, Settling
    <3> QED
      BY <1>q, <2>1, <3>2
  <2> QED
    BY <1>e, <2>1, <2>2 DEF UsableInv, Late
<1>3. CASE Loop!Prepared \/ Loop!JudgeFatal \/ Loop!Restart
  <2>1. proc' \in {Loop!Idle, [Loop!Idle EXCEPT !.named = TRUE]} /\ UNCHANGED <<queue, image>>
    BY <1>3 DEF Loop!Prepared, Loop!JudgeFatal, Loop!Restart
  <2>2. DOMAIN state' = DOMAIN state
    BY <1>3 DEF Loop!Prepared, Loop!JudgeFatal, Loop!Restart, Loop!Phase, Loop!Stop
  <2>3. /\ proc' = [pc |-> "idle", named |-> proc'.named, seen |-> proc'.seen, taken |-> proc'.taken,
                    counts |-> proc'.counts]
        /\ proc'.taken = {}
    BY <1>i, <2>1
  <2> QED
    BY <1>e, <1>q, <2>1, <2>2, <2>3 DEF UsableInv, Late
<1>4. CASE Loop!ReviewStart \/ Loop!SyncCascades \/ Loop!ReadStatus \/ Loop!Judge
  <2>1. /\ ReviewsOK' /\ UNCHANGED image /\ DOMAIN state' = DOMAIN state
    BY <1>0, <1>4, <1>q, SyncedOK, RequeuedOK
       DEF Loop!ReviewStart, Loop!SyncCascades, Loop!ReadStatus, Loop!Judge, Loop!Phase
  <2>2. \E pc : /\ pc \notin Late
                /\ proc' = [pc |-> pc, named |-> proc.named, seen |-> proc'.seen, taken |-> proc.taken,
                            counts |-> proc.counts]
    <3>1. CASE Loop!ReviewStart \/ Loop!Judge
      <4>1. \E pc \in {"sync", "idle"} : proc' = [proc EXCEPT !.pc = pc]
        BY <3>1 DEF Loop!ReviewStart, Loop!Judge
      <4> QED
        BY <4>1 DEF UsableInv, Late
    <3>2. CASE Loop!SyncCascades \/ Loop!ReadStatus
      <4>1. \E seen : \E pc \in {"read", "judge"} : proc' = [[proc EXCEPT !.seen = seen] EXCEPT !.pc = pc]
        <5>1. CASE Loop!ReadStatus
          <6> DEFINE order == IF proc.named THEN Loop!AsNamed ELSE Loop!AsSaved
                     q == order[Len(proc.seen) + 1]
                     seen == Append(proc.seen, [q |-> q, open |-> Loop!Unfinished(q),
                                                failed |-> Loop!FailedReviews(q) # {}])
          <6>1. proc' = [[proc EXCEPT !.seen = seen] EXCEPT !.pc = IF Len(seen) = Len(order) THEN "judge" ELSE "read"]
            BY <5>1 DEF Loop!ReadStatus
          <6> HIDE DEF seen, order
          <6> QED
            BY <6>1
        <5>2. CASE Loop!SyncCascades
          <6>1. proc' = [[proc EXCEPT !.pc = "read"] EXCEPT !.seen = <<>>]
            BY <5>2 DEF Loop!SyncCascades
          <6> QED
            BY <6>1 DEF UsableInv
        <5> QED
          BY <3>2, <5>1, <5>2
      <4> QED
        BY <4>1 DEF UsableInv, Late
    <3> QED
      BY <1>4, <3>1, <3>2
  <2> QED
    BY <1>e, <2>1, <2>2 DEF UsableInv
(* The workers.                                                            *)
<1>5. ASSUME NEW q \in Loop!Queue, Loop!Worker(q) \/ Loop!ReviewFails(q) \/ Loop!WorkersDie(q) PROVE UsableInv'
  <2>1. UNCHANGED <<state, proc, image>>
    BY <1>5 DEF Loop!Worker, Loop!Review, Loop!WorkerSyncs, Loop!WorkerRests, Loop!ReviewFails, Loop!WorkersDie
  <2>2. CASE Loop!Review(q) \/ Loop!ReviewFails(q)
    <3>1. PICK c \in Loop!In(q, {"pending"}), r \in Loop!Result[q] \cup {{"retryable"}, {"fatal"}} :
            queue' = [queue EXCEPT ![q][c] = r]
      BY <2>2 DEF Loop!Review, Loop!ReviewFails
    <3> QED
      BY <1>0, <2>1, <3>1, ReviewedOK, WorkerGoesOn
  <2>3. CASE Loop!WorkerSyncs(q)
    <3>1. \E queues \in SUBSET Cascade : queue' = Loop!Synced(queues)
      BY <2>3 DEF Loop!WorkerSyncs
    <3> QED
      BY <1>0, <2>1, <3>1, SyncedOK, WorkerGoesOn
  <2>4. CASE Loop!WorkerRests(q) \/ Loop!WorkersDie(q)
    <3>1. UNCHANGED queue
      BY <2>4 DEF Loop!WorkerRests, Loop!WorkersDie
    <3> QED
      BY <1>q, <2>1, <3>1, WorkerGoesOn
  <2> QED
    BY <1>5, <2>2, <2>3, <2>4 DEF Loop!Worker
(* The round is folded in.                                                 *)
<1>6. CASE Loop!Export
  <2> DEFINE taken == {c \in Cand : Loop!Accepted(c)}
  <2>1. /\ state.phase = "round_finalize" /\ UNCHANGED <<state, queue, image>>
        /\ \E pc \in {"preview", "conclude"} : /\ proc' = [[proc EXCEPT !.taken = taken] EXCEPT !.pc = pc]
                                               /\ state.mode = "external" => pc = "preview"
    BY <1>6 DEF Loop!Export, Loop!At
  <2>2. \A c \in taken : Kept(c)
    BY DEF Loop!Accepted, Kept
  <2> HIDE DEF taken
  <2>3. PICK pc \in {"preview", "conclude"} :
          /\ proc' = [pc |-> pc, named |-> proc.named, seen |-> proc.seen, taken |-> taken, counts |-> proc.counts]
          /\ state.mode = "external" => pc = "preview"
    BY <2>1 DEF UsableInv
  <2>4. \A c \in taken : Kept(c)'
    BY <2>1, <2>2 DEF Kept, Loop!Says, Loop!Queue
  <2>5. taken \subseteq Cand
    BY DEF taken
  <2>6. TakenOK'
    BY <2>1, <2>3, <2>4, <2>5 DEF TakenOK
  <2> QED
    BY <1>q, <2>1, <2>3, <2>6 DEF UsableInv
<1>f. ASSUME UNCHANGED <<state, queue>>, DOMAIN image' = Cand, proc.pc \in Late, NEW pc, pc \in Late,
             proc' = [pc |-> pc, named |-> proc.named, seen |-> proc.seen, taken |-> proc.taken, counts |-> proc'.counts],
             pc = "conclude" => \A c \in proc.taken : image'[c] = "usable"
      PROVE  UsableInv'
  <2>1. \A c \in proc.taken : Kept(c)'
    BY <1>0, <1>f DEF TakenOK, Late, Kept, Loop!Says, Loop!Queue
  <2>2. TakenOK'
    BY <1>0, <1>f, <2>1 DEF TakenOK, Late
  <2> QED
    BY <1>f, <1>q, <2>2 DEF UsableInv
<1>7. CASE Loop!Preview \/ Loop!Apply
  <2>1. /\ UNCHANGED <<state, queue, image>> /\ proc.pc \in Late
        /\ \E counts : \E pc \in {"apply", "record"} : proc' = [[proc EXCEPT !.counts = counts] EXCEPT !.pc = pc]
    <3>1. CASE Loop!Preview
      BY <3>1 DEF Loop!Preview, Loop!At, Late
    <3>2. CASE Loop!Apply
      <4>1. proc' = [proc EXCEPT !.pc = "record"] /\ UNCHANGED <<state, queue, image>> /\ proc.pc = "apply"
        BY <3>2 DEF Loop!Apply, Loop!At
      <4>2. proc' = [[proc EXCEPT !.counts = proc.counts] EXCEPT !.pc = "record"]
        BY <4>1 DEF UsableInv
      <4> QED
        BY <4>1, <4>2 DEF Late
    <3> QED
      BY <1>7, <3>1, <3>2
  <2>2. PICK pc \in {"apply", "record"} :
          proc' = [pc |-> pc, named |-> proc.named, seen |-> proc.seen, taken |-> proc.taken, counts |-> proc'.counts]
    BY <2>1 DEF UsableInv
  <2> QED
    BY <1>f, <2>1, <2>2 DEF UsableInv, Late
<1>8. CASE Loop!Record
  <2> DEFINE due == {c \in Cand : Loop!Admission(c) \in {"usable", "unusable"} /\ image[c] # Loop!Admission(c)}
  <2>1. /\ UNCHANGED <<state, queue>> /\ proc.pc = "record"
        /\ \/ due = {} /\ proc' = [proc EXCEPT !.pc = "conclude"] /\ UNCHANGED image
           \/ UNCHANGED proc /\ DOMAIN image' = DOMAIN image
    BY <1>8 DEF Loop!Record, Loop!At
  <2>2. \A c \in proc.taken : Loop!Admission(c) = "usable"
    BY <1>0, <2>1, KeptIsUsable DEF TakenOK
  <2>3. due = {} => \A c \in proc.taken : image[c] = "usable"
    BY <1>0, <2>2 DEF TakenOK
  <2> HIDE DEF due
  <2>4. CASE UNCHANGED proc /\ DOMAIN image' = DOMAIN image
    <3>1. proc' = [pc |-> "record", named |-> proc.named, seen |-> proc.seen, taken |-> proc.taken,
                   counts |-> proc'.counts]
      BY <2>1, <2>4 DEF UsableInv
    <3> QED
      BY <1>f, <2>1, <2>4, <3>1 DEF UsableInv, Late
  <2>5. CASE due = {} /\ proc' = [proc EXCEPT !.pc = "conclude"] /\ UNCHANGED image
    <3>1. proc' = [pc |-> "conclude", named |-> proc.named, seen |-> proc.seen, taken |-> proc.taken,
                   counts |-> proc'.counts]
      BY <2>5 DEF UsableInv
    <3> QED
      BY <1>f, <2>1, <2>3, <2>5, <3>1 DEF UsableInv, Late
  <2> QED
    BY <2>1, <2>4, <2>5
<1>9. CASE Loop!Conclude
  <2>1. proc' = Loop!Idle /\ queue' = Loop!NoQueue /\ image' = Loop!InStore
    BY <1>9 DEF Loop!Conclude
  <2>2. DOMAIN state' = DOMAIN state
    BY <1>9 DEF Loop!Conclude, Loop!Stop
  <2>3. ReviewsOK'
    BY <2>1 DEF ReviewsOK, Loop!NoQueue, Loop!Queue, Settling
  <2> QED
    BY <1>e, <1>i, <2>1, <2>2, <2>3 DEF UsableInv, Loop!InStore, Late
<1>10. CASE Loop!RoundRefused \/ Loop!CommandFails \/ Loop!Crash
  <2>1. proc' \in {Loop!Idle, Loop!Down} /\ UNCHANGED <<queue, image>> /\ DOMAIN state' = DOMAIN state
    BY <1>10 DEF Loop!RoundRefused, Loop!CommandFails, Loop!Crash, Loop!Fails, Loop!Stop
  <2> QED
    BY <1>e, <1>i, <1>q, <2>1 DEF UsableInv, Late
<1>11. CASE UNCHANGED Loop!vars
  <2>1. UNCHANGED <<state, queue, proc, image>>
    BY <1>11 DEF Loop!vars
  <2> QED
    BY <1>q, <2>1, WorkerGoesOn
<1> QED
  BY <1>1, <1>2, <1>3, <1>4, <1>5, <1>6, <1>7, <1>8, <1>9, <1>10, <1>11 DEF Loop!Next, Loop!Controller

LEMMA UsableStart ==
  ASSUME Loop!Init PROVE UsableInv
<1>1. ReviewsOK
  BY DEF Loop!Init, ReviewsOK, Loop!NoQueue, Loop!Queue, Settling
<1>2. proc = [pc |-> "idle", named |-> FALSE, seen |-> <<>>, taken |-> {}, counts |-> <<0, 0>>]
  BY DEF Loop!Init, Loop!Idle, Loop!Down
<1>3. DOMAIN image = Cand /\ DOMAIN state = {"phase", "round", "mode", "residual", "noProgress", "low", "reason", "errors"}
  BY DEF Loop!Init, Loop!InStore
<1>4. TakenOK
  BY <1>2 DEF TakenOK
<1> QED
  BY <1>1, <1>2, <1>3, <1>4 DEF UsableInv

(* AcceptedAreUsable: what an external round adds to the slots, the        *)
(* registry has as usable, although the export and the finalization judge  *)
(* the reviews at different times and workers go on between them           *)
(* (campaign35_word_loop.py, campaign35_word_loop_controller.py).          *)
THEOREM AcceptedCorrect ==
  ASSUME Cascade \subseteq Cascades PROVE Loop!Spec => []Loop!AcceptedAreUsable
<1>1. Loop!Init => UsableInv
  BY UsableStart
<1>2. UsableInv /\ [Loop!Next]_(Loop!vars) => UsableInv'
  BY UsableStep
<1>3. UsableInv => Loop!AcceptedAreUsable
  BY DEF UsableInv, TakenOK, Loop!AcceptedAreUsable
<1> QED
  BY <1>1, <1>2, <1>3, PTL DEF Loop!Spec

(* Why the loop of words ends.  Two external rounds without a gain since   *)
(* the last round that had one: the evidence that it ends by.              *)
DryExternal(h, k) ==
  k \in DOMAIN h /\ h[k].mode = "external" /\ \A i \in k..Len(h) : h[i].gain = 0

OneDry(h) == \E k \in DOMAIN h : DryExternal(h, k)
TwoDry(h) == \E j, k \in DOMAIN h : j < k /\ DryExternal(h, j) /\ DryExternal(h, k)

(* The totals of the gains, round by round.                                *)
Totals(h, f) == f = [k \in 0..Len(h) |-> IF k = 0 THEN 0 ELSE f[k - 1] + h[k].gain]

Modes == {Null, "local", "external"}
Folded == [mode : Modes, gain : Nat]

(* The counter of state.json is what the rounds show.                      *)
CountedOK ==
  /\ state.phase # "complete" =>
        (state.noProgress >= 1 => OneDry(history)) /\ (state.noProgress >= 2 => TwoDry(history))
  /\ state.reason = "no_progress" => state.phase = "exhausted" /\ TwoDry(history)

AddedOK ==
  /\ \E f : Totals(history, f)
  /\ \A f : Totals(history, f) =>
        f[Len(history)] = Slots - IF state.phase = "complete" THEN 0 ELSE state.residual

HistoryInv ==
  /\ history \in Seq(Folded) /\ state.mode \in Modes
  /\ state.noProgress \in Nat /\ state.residual \in Int
  /\ CountedOK /\ AddedOK

LEMMA AppendedRound ==
  ASSUME NEW h \in Seq(Folded), NEW e \in Folded
  PROVE  /\ Append(h, e) \in Seq(Folded) /\ Len(Append(h, e)) = Len(h) + 1 /\ Append(h, e)[Len(h) + 1] = e
         /\ DOMAIN h = 1..Len(h) /\ DOMAIN Append(h, e) = 1..(Len(h) + 1) /\ Len(h) \in Nat
         /\ \A i \in 1..Len(h) : Append(h, e)[i] = h[i]
  OBVIOUS

(* A round that gained nothing leaves the evidence, and an external one    *)
(* adds to it.                                                             *)
LEMMA DryRound ==
  ASSUME NEW h \in Seq(Folded), NEW e \in Folded, e.gain = 0
  PROVE  /\ OneDry(h) => OneDry(Append(h, e))
         /\ TwoDry(h) => TwoDry(Append(h, e))
         /\ e.mode = "external" => OneDry(Append(h, e))
         /\ e.mode = "external" /\ OneDry(h) => TwoDry(Append(h, e))
<1> DEFINE g == Append(h, e)
           n == Len(h)
<1>1. /\ DOMAIN h = 1..n /\ DOMAIN g = 1..(n + 1) /\ n \in Nat /\ Len(g) = n + 1
      /\ g[n + 1] = e /\ \A i \in 1..n : g[i] = h[i]
  BY AppendedRound
<1> HIDE DEF g, n
<1>2. ASSUME NEW k \in DOMAIN h, DryExternal(h, k) PROVE k \in DOMAIN g /\ k < n + 1 /\ DryExternal(g, k)
  <2>1. k \in 1..n
    BY <1>1
  <2>2. \A i \in k..n : h[i].gain = 0
    BY <1>2 DEF DryExternal, n
  <2>3. ASSUME NEW i \in k..(n + 1) PROVE g[i].gain = 0
    <3>1. CASE i = n + 1
      BY <1>1, <3>1
    <3>2. CASE i # n + 1
      <4>1. i \in k..n /\ i \in 1..n
        BY <1>1, <2>1, <3>2
      <4> QED
        BY <1>1, <2>2, <4>1
    <3> QED
      BY <3>1, <3>2
  <2> QED
    BY <1>1, <1>2, <2>1, <2>3 DEF DryExternal
<1>3. e.mode = "external" => n + 1 \in DOMAIN g /\ DryExternal(g, n + 1)
  <2>1. \A i \in (n + 1)..(n + 1) : i = n + 1
    BY <1>1
  <2> QED
    BY <1>1, <2>1 DEF DryExternal
<1>4. OneDry(h) => OneDry(g)
  BY <1>2 DEF OneDry
<1>5. TwoDry(h) => TwoDry(g)
  BY <1>2 DEF TwoDry
<1>6. e.mode = "external" => OneDry(g)
  BY <1>3 DEF OneDry
<1>7. e.mode = "external" /\ OneDry(h) => TwoDry(g)
  <2> SUFFICES ASSUME e.mode = "external", NEW k \in DOMAIN h, DryExternal(h, k) PROVE TwoDry(g)
    BY DEF OneDry
  <2>1. k \in DOMAIN g /\ n + 1 \in DOMAIN g /\ k < n + 1 /\ DryExternal(g, k) /\ DryExternal(g, n + 1)
    BY <1>2, <1>3
  <2> QED
    BY <2>1 DEF TwoDry
<1> QED
  BY <1>4, <1>5, <1>6, <1>7 DEF g

(* One more round: there are totals, and they end on the old sum and its   *)
(* gain.                                                                   *)
LEMMA OneMoreTotal ==
  ASSUME NEW h \in Seq(Folded), NEW e \in Folded, NEW sum \in Int,
         \E f : Totals(h, f), \A f : Totals(h, f) => f[Len(h)] = sum
  PROVE  /\ \E f : Totals(Append(h, e), f)
         /\ \A f : Totals(Append(h, e), f) => f[Len(Append(h, e))] = sum + e.gain
<1> DEFINE g == Append(h, e)
           n == Len(h)
<1>1. /\ n \in Nat /\ Len(g) = n + 1 /\ g[n + 1] = e /\ \A i \in 1..n : g[i] = h[i]
  BY AppendedRound
<1> HIDE DEF g, n
<1>r. /\ 0..n \subseteq 0..(n + 1) /\ n + 1 \in 0..(n + 1)
      /\ \A k \in 0..(n + 1) : k \in 0..n \/ k = n + 1
      /\ \A k \in 0..n : k # n + 1
      /\ \A k \in 0..n : k # 0 => k - 1 \in 0..n /\ k \in 1..n
      /\ n \in 0..n /\ n + 1 - 1 = n /\ n + 1 # 0
  BY <1>1
<1>2. \E f : Totals(g, f)
  <2>1. PICK f : f = [k \in 0..n |-> IF k = 0 THEN 0 ELSE f[k - 1] + h[k].gain]
    BY DEF Totals, n
  <2> DEFINE x == [k \in 0..(n + 1) |-> IF k = n + 1 THEN f[n] + e.gain ELSE f[k]]
  <2>2. ASSUME NEW k \in 0..(n + 1)
        PROVE  x[k] = IF k = 0 THEN 0 ELSE x[k - 1] + g[k].gain
    <3>1. CASE k = n + 1
      <4>1. x[k] = f[n] + e.gain /\ x[k - 1] = f[n] /\ g[k] = e /\ k # 0
        BY <1>1, <1>r, <3>1
      <4> QED
        BY <4>1
    <3>2. CASE k \in 0..n /\ k # 0
      <4>1. /\ k - 1 \in 0..n /\ k \in 1..n
        BY <1>r, <3>2
      <4>2. x[k] = f[k] /\ x[k - 1] = f[k - 1] /\ g[k] = h[k]
        BY <1>1, <1>r, <3>2, <4>1
      <4>3. f[k] = f[k - 1] + h[k].gain
        BY <2>1, <3>2
      <4> QED
        BY <3>2, <4>2, <4>3
    <3>3. CASE k = 0
      <4>1. 0 \in 0..n
        BY <1>1
      <4>2. x[0] = f[0] /\ f[0] = 0
        BY <1>1, <1>r, <2>1, <4>1
      <4> QED
        BY <3>3, <4>2
    <3> QED
      BY <1>r, <3>1, <3>2, <3>3
  <2>3. x = [k \in 0..(n + 1) |-> IF k = 0 THEN 0 ELSE x[k - 1] + g[k].gain]
    <3> DEFINE y == [k \in 0..(n + 1) |-> IF k = 0 THEN 0 ELSE x[k - 1] + g[k].gain]
    <3>1. \A k \in 0..(n + 1) : x[k] = y[k]
      BY <2>2
    <3>2. x = [k \in 0..(n + 1) |-> x[k]] /\ y = [k \in 0..(n + 1) |-> y[k]]
      OBVIOUS
    <3> HIDE DEF x, y
    <3>3. x = y
      BY <3>1, <3>2
    <3> QED
      BY <3>3 DEF y
  <2> HIDE DEF x
  <2> QED
    BY <1>1, <2>3 DEF Totals
<1>3. ASSUME NEW f, Totals(g, f) PROVE f[n + 1] = sum + e.gain
  <2>1. f = [k \in 0..(n + 1) |-> IF k = 0 THEN 0 ELSE f[k - 1] + g[k].gain]
    BY <1>1, <1>3 DEF Totals
  <2> DEFINE x == [k \in 0..n |-> f[k]]
  <2>2. x = [k \in 0..n |-> IF k = 0 THEN 0 ELSE x[k - 1] + h[k].gain]
    <3> DEFINE y == [k \in 0..n |-> IF k = 0 THEN 0 ELSE x[k - 1] + h[k].gain]
    <3>1. ASSUME NEW k \in 0..n PROVE x[k] = y[k]
      <4>1. k \in 0..(n + 1) /\ x[k] = f[k]
        BY <1>r
      <4>2. f[k] = IF k = 0 THEN 0 ELSE f[k - 1] + g[k].gain
        BY <2>1, <4>1
      <4>3. CASE k = 0
        BY <4>1, <4>2, <4>3
      <4>4. CASE k # 0
        <5>1. x[k - 1] = f[k - 1] /\ g[k] = h[k]
          BY <1>1, <1>r, <4>4
        <5> QED
          BY <4>1, <4>2, <4>4, <5>1
      <4> QED
        BY <4>3, <4>4
    <3>2. x = [k \in 0..n |-> x[k]] /\ y = [k \in 0..n |-> y[k]]
      OBVIOUS
    <3> HIDE DEF x, y
    <3>3. x = y
      BY <3>1, <3>2
    <3> QED
      BY <3>3 DEF y
  <2>3. x[n] = f[n]
    BY <1>r
  <2> HIDE DEF x
  <2>4. f[n] = sum
    BY <2>2, <2>3 DEF Totals, n
  <2>5. f[n + 1] = f[n] + g[n + 1].gain
    BY <1>r, <2>1
  <2> QED
    BY <1>1, <2>4, <2>5
<1> QED
  BY <1>1, <1>2, <1>3 DEF g

Fields == {"phase", "round", "mode", "residual", "noProgress", "low", "reason", "errors"}

(* No round is folded in, and the loop may end for another reason.         *)
LEMMA HistoryStays ==
  ASSUME HistoryInv, UNCHANGED history, state'.mode \in Modes,
         state'.noProgress = state.noProgress, state'.residual = state.residual,
         state.phase = "complete" <=> state'.phase = "complete",
         state'.reason = "no_progress" => state.reason = "no_progress" /\ state'.phase = state.phase
  PROVE  HistoryInv'
<1>1. CountedOK'
  BY DEF HistoryInv, CountedOK
<1>2. AddedOK'
  BY DEF HistoryInv, AddedOK
<1> QED
  BY <1>1, <1>2 DEF HistoryInv, Modes

LEMMA SameSize == \A S : Loop!Cardinality(S) = Cardinality(S)
BY DEF Loop!Cardinality, Cardinality

LEMMA ConcludedRound ==
  ASSUME UsableInv, HistoryInv, IsFiniteSet(Cand), Slots \in Nat, Loop!Conclude PROVE HistoryInv'
<1> DEFINE gain == Loop!Cardinality(proc.taken)
           e == [mode |-> state.mode, gain |-> gain]
           none == Loop!NoProgress(gain)
<1>1. PICK low \in BOOLEAN :
        LET next == [state EXCEPT !.round = @ + 1, !.mode = Null, !.errors = 0,
                                  !.residual = @ - gain, !.noProgress = none,
                                  !.low = IF state.mode = "external" THEN low ELSE @]
        IN state' = IF next.residual = 0 THEN Loop!Stop("complete", "none")
                    ELSE IF state.mode = "local" /\ gain = 0
                    THEN [next EXCEPT !.phase = "external_discover"]
                    ELSE IF state.mode = "external" /\ next.noProgress >= 2
                    THEN [next EXCEPT !.phase = "exhausted", !.reason = "no_progress"]
                    ELSE IF low /\ state.round >= YieldStart
                    THEN [next EXCEPT !.phase = "exhausted", !.reason = "yield"]
                    ELSE [next EXCEPT !.phase = "local_discover"]
  BY DEF Loop!Conclude
<1>2. history' = Append(history, e) /\ state.phase = "round_finalize"
  BY DEF Loop!Conclude, Loop!At
<1>3. gain \in Nat
  <2>1. gain = Cardinality(proc.taken)
    BY SameSize
  <2> QED
    BY <2>1, FS_Subset, FS_CardinalityType DEF UsableInv, TakenOK
<1> HIDE DEF gain
<1>4. e \in Folded /\ e.gain = gain /\ e.mode = state.mode
  BY <1>3 DEF HistoryInv, Folded
<1>5. none = IF gain > 0 THEN 0 ELSE state.noProgress + IF state.mode = "external" THEN 1 ELSE 0
  BY DEF Loop!NoProgress
<1> HIDE DEF e, none
<1>6. none \in Nat
  BY <1>3, <1>5 DEF HistoryInv
<1>7. state.reason # "no_progress"
  BY <1>2 DEF HistoryInv, CountedOK
<1> DEFINE next == [state EXCEPT !.round = @ + 1, !.mode = Null, !.errors = 0,
                                 !.residual = @ - gain, !.noProgress = none,
                                 !.low = IF state.mode = "external" THEN low ELSE @]
<1>8. /\ DOMAIN next = Fields /\ next.mode = Null /\ next.residual = state.residual - gain
      /\ next.noProgress = none /\ next.reason = state.reason
  BY DEF UsableInv, Fields
<1>9. \/ next.residual = 0 /\ state' = Loop!Stop("complete", "none")
      \/ /\ next.residual # 0
         /\ \/ state' = [next EXCEPT !.phase = "external_discover"]
            \/ /\ state.mode = "external" /\ none >= 2
               /\ state' = [next EXCEPT !.phase = "exhausted", !.reason = "no_progress"]
            \/ state' = [next EXCEPT !.phase = "exhausted", !.reason = "yield"]
            \/ state' = [next EXCEPT !.phase = "local_discover"]
  BY <1>1, <1>8
<1> HIDE DEF next
<1>10. CASE next.residual = 0 /\ state' = Loop!Stop("complete", "none")
  <2>1. /\ state'.phase = "complete" /\ state'.reason = "none" /\ state'.mode = state.mode
        /\ state'.noProgress = state.noProgress /\ state'.residual = state.residual
    BY <1>10 DEF UsableInv, Loop!Stop
  <2>2. CountedOK'
    BY <2>1 DEF CountedOK
  <2>3. /\ \E f : Totals(history, f)
        /\ \A f : Totals(history, f) => f[Len(history)] = Slots - state.residual
        /\ Slots - state.residual \in Int /\ history \in Seq(Folded)
    BY <1>2 DEF HistoryInv, AddedOK
  <2>4. /\ \E f : Totals(history', f)
        /\ \A f : Totals(history', f) => f[Len(history')] = Slots - state.residual + gain
    BY <1>2, <1>4, <2>3, OneMoreTotal
  <2>5. Slots - state.residual + gain = Slots - 0
    <3>1. state.residual \in Int /\ state.residual - gain = 0
      BY <1>8, <1>10 DEF HistoryInv
    <3> QED
      BY <1>3, <3>1
  <2>6. AddedOK'
    BY <2>1, <2>4, <2>5 DEF AddedOK
  <2>7. history' \in Seq(Folded)
    BY <1>2, <1>4, AppendedRound DEF HistoryInv
  <2> QED
    BY <2>1, <2>2, <2>6, <2>7 DEF HistoryInv, Modes
<1>11. CASE /\ next.residual # 0
            /\ \/ state' = [next EXCEPT !.phase = "external_discover"]
               \/ /\ state.mode = "external" /\ none >= 2
                  /\ state' = [next EXCEPT !.phase = "exhausted", !.reason = "no_progress"]
               \/ state' = [next EXCEPT !.phase = "exhausted", !.reason = "yield"]
               \/ state' = [next EXCEPT !.phase = "local_discover"]
  <2>1. /\ state'.phase # "complete" /\ state'.mode = Null
        /\ state'.noProgress = none /\ state'.residual = state.residual - gain
        /\ state'.reason = "no_progress" => state'.phase = "exhausted" /\ state.mode = "external" /\ none >= 2
    BY <1>7, <1>8, <1>11 DEF Fields
  <2>2. /\ state.noProgress >= 1 => OneDry(history)
        /\ state.noProgress >= 2 => TwoDry(history)
        /\ history \in Seq(Folded) /\ state.noProgress \in Nat
    BY <1>2 DEF HistoryInv, CountedOK
  <2>3. /\ none >= 1 => OneDry(history')
        /\ none >= 2 => TwoDry(history')
    <3>1. CASE gain > 0
      BY <1>5, <3>1
    <3>2. CASE gain = 0 /\ state.mode = "external"
      <4>1. /\ OneDry(history') /\ (OneDry(history) => TwoDry(history'))
        BY <1>2, <1>4, <2>2, <3>2, DryRound
      <4>2. none = state.noProgress + 1
        BY <1>5, <3>2
      <4> QED
        BY <2>2, <4>1, <4>2
    <3>3. CASE gain = 0 /\ state.mode # "external"
      <4>1. /\ OneDry(history) => OneDry(history')
            /\ TwoDry(history) => TwoDry(history')
        BY <1>2, <1>4, <2>2, <3>3, DryRound
      <4>2. none = state.noProgress
        BY <1>5, <2>2, <3>3
      <4> QED
        BY <2>2, <4>1, <4>2
    <3> QED
      BY <1>3, <3>1, <3>2, <3>3
  <2>4. CountedOK'
    BY <2>1, <2>3 DEF CountedOK
  <2>5. /\ \E f : Totals(history, f)
        /\ \A f : Totals(history, f) => f[Len(history)] = Slots - state.residual
        /\ Slots - state.residual \in Int
    BY <1>2 DEF HistoryInv, AddedOK
  <2>6. /\ \E f : Totals(history', f)
        /\ \A f : Totals(history', f) => f[Len(history')] = Slots - state.residual + gain
    BY <1>2, <1>4, <2>2, <2>5, OneMoreTotal
  <2>7. Slots - state.residual + gain = Slots - (state.residual - gain) /\ state.residual - gain \in Int
    BY <1>3 DEF HistoryInv
  <2>8. AddedOK'
    BY <2>1, <2>6, <2>7 DEF AddedOK
  <2>9. history' \in Seq(Folded)
    BY <1>2, <1>4, <2>2, AppendedRound
  <2> QED
    BY <1>6, <2>1, <2>4, <2>7, <2>8, <2>9 DEF HistoryInv, Modes
<1> QED
  BY <1>9, <1>10, <1>11

LEMMA HistoryStep ==
  ASSUME UsableInv, HistoryInv, IsFiniteSet(Cand), Slots \in Nat, [Loop!Next]_(Loop!vars) PROVE HistoryInv'
<1>1. CASE UNCHANGED <<state, history>>
  BY <1>1, HistoryStays DEF HistoryInv
<1>2. ASSUME UNCHANGED history, state.phase \notin Loop!Terminal, NEW phase, phase # "complete",
             NEW mode \in {state.mode, "local", "external"}, NEW reason \in {state.reason, "yield", "candidates", "review", "errors"},
             NEW errors, state' = [state EXCEPT !.phase = phase, !.mode = mode, !.reason = reason, !.errors = errors]
      PROVE  HistoryInv'
  <2>1. /\ state'.phase = phase /\ state'.mode = mode /\ state'.reason = reason
        /\ state'.noProgress = state.noProgress /\ state'.residual = state.residual
    BY <1>2 DEF UsableInv
  <2>2. state.reason # "no_progress" /\ state.phase # "complete"
    BY <1>2 DEF HistoryInv, CountedOK, Loop!Terminal
  <2>3. mode \in Modes
    BY DEF HistoryInv, Modes
  <2> QED
    BY <1>2, <2>1, <2>2, <2>3, HistoryStays
<1>3. ASSUME UNCHANGED history, state.phase \notin Loop!Terminal, NEW phase, phase # "complete",
             \/ state' = Loop!Phase(phase)
             \/ state' = [Loop!Phase(phase) EXCEPT !.mode = "local"]
             \/ state' = [Loop!Phase(phase) EXCEPT !.mode = "external"]
             \/ \E reason \in {"yield", "candidates", "review", "errors"} : state' = Loop!Stop(phase, reason)
      PROVE  HistoryInv'
  <2>1. \E mode \in {state.mode, "local", "external"}, reason \in {state.reason, "yield", "candidates", "review", "errors"},
           errors \in {0, state.errors} :
             state' = [state EXCEPT !.phase = phase, !.mode = mode, !.reason = reason, !.errors = errors]
    <3>1. CASE state' = Loop!Phase(phase)
      <4>1. state' = [state EXCEPT !.phase = phase, !.mode = state.mode, !.reason = state.reason, !.errors = 0]
        BY <3>1 DEF Loop!Phase, UsableInv
      <4> QED
        BY <4>1
    <3>2. ASSUME NEW mode \in {"local", "external"}, state' = [Loop!Phase(phase) EXCEPT !.mode = mode]
          PROVE  state' = [state EXCEPT !.phase = phase, !.mode = mode, !.reason = state.reason, !.errors = 0]
      BY <3>2 DEF Loop!Phase, UsableInv
    <3>3. ASSUME NEW reason, state' = Loop!Stop(phase, reason)
          PROVE  state' = [state EXCEPT !.phase = phase, !.mode = state.mode, !.reason = reason, !.errors = state.errors]
      BY <3>3 DEF Loop!Stop, UsableInv
    <3> QED
      BY <1>3, <3>1, <3>2, <3>3
  <2> QED
    BY <1>2, <1>3, <2>1
<1>4. CASE Loop!LocalDiscover
  BY <1>3, <1>4 DEF Loop!LocalDiscover, Loop!At, Loop!Terminal
<1>5. CASE Loop!ExternalDiscover
  BY <1>3, <1>5 DEF Loop!ExternalDiscover, Loop!At, Loop!Terminal
<1>6. CASE Loop!ExternalDownload \/ Loop!Prepared \/ Loop!JudgeFatal
  BY <1>3, <1>6 DEF Loop!ExternalDownload, Loop!Prepared, Loop!JudgeFatal, Loop!At, Loop!Terminal
<1>7. CASE Loop!Judge
  <2>1. UNCHANGED history /\ (state' = state \/ state' = Loop!Phase("round_finalize")) /\ state.phase = "review_wait"
    BY <1>7 DEF Loop!Judge, Loop!At
  <2> QED
    BY <1>1, <1>3, <2>1 DEF Loop!Terminal
<1>8. CASE \/ Loop!PrepareReview \/ Loop!ReviewStart \/ Loop!SyncCascades \/ Loop!ReadStatus
           \/ Loop!Export \/ Loop!Preview \/ Loop!Apply \/ Loop!Record \/ Loop!Crash \/ Loop!Restart
  BY <1>1, <1>8 DEF Loop!PrepareReview, Loop!ReviewStart, Loop!SyncCascades, Loop!ReadStatus, Loop!Export,
     Loop!Preview, Loop!Apply, Loop!Record, Loop!Crash, Loop!Restart
<1>9. ASSUME NEW q \in Loop!Queue, Loop!Worker(q) \/ Loop!ReviewFails(q) \/ Loop!WorkersDie(q) PROVE HistoryInv'
  BY <1>1, <1>9 DEF Loop!Worker, Loop!Review, Loop!WorkerSyncs, Loop!WorkerRests, Loop!ReviewFails, Loop!WorkersDie
<1>10. CASE Loop!RoundRefused \/ Loop!CommandFails
  <2>1. Loop!Fails /\ state.phase \notin Loop!Terminal
    BY <1>10 DEF Loop!RoundRefused, Loop!CommandFails, Loop!Refused, Loop!Running, Loop!At, Loop!Terminal
  <2>2. UNCHANGED history /\ (state' = Loop!Stop("blocked", "errors") \/ state' = [state EXCEPT !.errors = @ + 1])
    BY <2>1 DEF Loop!Fails
  <2>3. CASE state' = [state EXCEPT !.errors = @ + 1]
    <3>1. /\ state'.phase = state.phase /\ state'.mode = state.mode /\ state'.reason = state.reason
          /\ state'.noProgress = state.noProgress /\ state'.residual = state.residual
      BY <2>3 DEF UsableInv
    <3> QED
      BY <2>2, <3>1, HistoryStays DEF HistoryInv
  <2> QED
    BY <1>3, <2>1, <2>2, <2>3
<1>11. CASE Loop!Conclude
  BY <1>11, ConcludedRound
<1>12. CASE UNCHANGED Loop!vars
  BY <1>1, <1>12 DEF Loop!vars
<1> QED
  BY <1>4, <1>5, <1>6, <1>7, <1>8, <1>9, <1>10, <1>11, <1>12 DEF Loop!Next, Loop!Controller

(* ExhaustedAfterTwo: the loop gives its sources up only behind two        *)
(* external rounds that gained nothing after the last gain, local ones     *)
(* between them or not, and the gains of the rounds add up to the slots    *)
(* that are filled, whatever was run twice                                 *)
(* (campaign35_word_loop_controller.py, round_finalize).                   *)
THEOREM ExhaustedCorrect ==
  ASSUME Cascade \subseteq Cascades, IsFiniteSet(Cand), Slots \in Nat
  PROVE  Loop!Spec => []Loop!ExhaustedAfterTwo
<1>1. Loop!Init => UsableInv
  BY UsableStart
<1>2. Loop!Init => HistoryInv
  <2> SUFFICES ASSUME Loop!Init PROVE HistoryInv
    OBVIOUS
  <2>1. /\ state.phase = "local_discover" /\ state.mode = Null /\ state.residual = Slots
        /\ state.noProgress = 0 /\ state.reason = "none" /\ history = <<>>
    BY DEF Loop!Init
  <2>2. Len(history) = 0 /\ history \in Seq(Folded)
    BY <2>1
  <2>3. \E f : Totals(history, f)
    <3> DEFINE zero == [k \in 0..0 |-> 0]
    <3>1. \A k \in 0..0 : k = 0
      OBVIOUS
    <3>2. zero = [k \in 0..0 |-> IF k = 0 THEN 0 ELSE zero[k - 1] + history[k].gain]
      BY <3>1
    <3> HIDE DEF zero
    <3> QED
      BY <2>2, <3>2 DEF Totals
  <2>4. ASSUME NEW f, Totals(history, f) PROVE f[Len(history)] = 0
    <3>1. 0 \in 0..Len(history)
      BY <2>2
    <3> QED
      BY <2>2, <2>4, <3>1 DEF Totals
  <2>5. AddedOK
    BY <2>1, <2>3, <2>4 DEF AddedOK
  <2>6. CountedOK
    BY <2>1 DEF CountedOK
  <2> QED
    BY <2>1, <2>2, <2>5, <2>6 DEF HistoryInv, Modes
<1>3. UsableInv /\ HistoryInv /\ [Loop!Next]_(Loop!vars) => UsableInv' /\ HistoryInv'
  BY UsableStep, HistoryStep
<1>4. HistoryInv => Loop!ExhaustedAfterTwo
  <2> SUFFICES ASSUME HistoryInv PROVE Loop!ExhaustedAfterTwo
    OBVIOUS
  <2>1. Totals(history, Loop!Gained)
    <3>1. PICK f : Totals(history, f)
      BY DEF HistoryInv, AddedOK
    <3> QED
      BY <3>1 DEF Loop!Gained, Totals
  <2>2. Loop!Gained[Len(history)] = Slots - IF state.phase = "complete" THEN 0 ELSE state.residual
    BY <2>1 DEF HistoryInv, AddedOK
  <2>3. ASSUME state.reason = "no_progress"
        PROVE  \E j, k \in DOMAIN history :
                 /\ j < k /\ history[j].mode = "external" /\ history[k].mode = "external"
                 /\ \A i \in j..Len(history) : history[i].gain = 0
    BY <2>3 DEF HistoryInv, CountedOK, TwoDry, DryExternal
  <2> QED
    BY <2>2, <2>3 DEF Loop!ExhaustedAfterTwo
<1> QED
  BY <1>1, <1>2, <1>3, <1>4, PTL DEF Loop!Spec

-----------------------------------------------------------------------------
(* Who trains a branch.                                                    *)

Branch == INSTANCE CortexBranch

FlowType ==
  [material : Materials, first : 1 .. N, last : 1 .. N, copy : BOOLEAN, chosen : SUBSET (1 .. N),
   start : Branch!Checkpoint, status : {"active", "succeeded", "failed", "blocked"},
   why : {"", "retired input", "other"}]

Statuses == {"none", "queued", "running", "succeeded", "collapsed", "transient", "faulty", "gap"}

BranchTyped ==
  /\ workflows \in Seq(FlowType) /\ Len(workflows) <= MaxWorkflows
  /\ job \in [Branch!Stage -> Statuses]
  /\ bound \in [Branch!SessionId -> Branch!Stage \cup {Null}]
  /\ asked \in [Clients -> Materials \cup {Null}]

(* Only the last session that was reached is not settled, and the ledger   *)
(* has admitted it for the job that trains it.                             *)
StageOK(w, k) ==
  /\ job[<<w, k, "train">>] # "none" \/ job[<<w, k, "evaluate">>] # "none" =>
        /\ w \in Branch!Rows /\ k \in Branch!Sessions(w)
        /\ \A j \in workflows[w].first .. (k - 1) : Branch!SessionDone(w, j)
  /\ job[<<w, k, "evaluate">>] # "none" => Branch!Trained(w, k) /\ k \in workflows[w].chosen
  /\ job[<<w, k, "train">>] \notin {"collapsed", "gap"}
  /\ job[<<w, k, "train">>] \notin {"none", "faulty"} => bound[Branch!Id(w, k)] = <<w, k, "train">>

(* A workflow that starts behind another one continues it, from its last   *)
(* session, whose evaluation has lost its comparison parent.               *)
StartOK(w) ==
  LET row == workflows[w]
      p   == row.start
  IN  /\ row.first <= row.last
      /\ ~row.copy => row.chosen = row.first .. row.last
      /\ IF row.first = 1 THEN p = Branch!Base
         ELSE /\ p[1] \in Branch!Rows /\ p[2] = row.first - 1 /\ p[2] \in Branch!Sessions(p[1])
              /\ workflows[p[1]].material = row.material
              /\ Branch!Trained(p[1], p[2]) /\ Branch!Parent(p[1], p[2]) \in retired

(* What the reason of a workflow that was blocked tells.                   *)
BlockedOK(w) ==
  workflows[w].status = "blocked" /\ workflows[w].why = "retired input" =>
     \E f \in Branch!Sessions(w) :
        /\ Branch!Trained(w, f)
        /\ \A k \in Branch!Sessions(w) : k > f => job[<<w, k, "train">>] = "none"
        /\ Branch!Parent(w, f) \in retired \/ <<w, f>> \in retired

BranchInv ==
  /\ BranchTyped
  /\ \A w \in Branch!Row, k \in 1 .. N : StageOK(w, k)
  /\ \A w \in Branch!Rows : StartOK(w) /\ BlockedOK(w)

RowsTyped ==
  /\ Branch!Rows = 1 .. Len(workflows) /\ Len(workflows) \in Nat /\ Len(workflows) <= MaxWorkflows
  /\ \A w \in Branch!Rows : workflows[w] \in FlowType /\ w \in Branch!Row

LEMMA Typed ==
  ASSUME BranchTyped, N \in Nat, MaxWorkflows \in Nat PROVE RowsTyped
BY DEF BranchTyped, RowsTyped, Branch!Rows, Branch!Row

LEMMA LeastOf ==
  ASSUME NEW S \in SUBSET Nat, S # {} PROVE \E x \in S : \A y \in S : x <= y
<1> DEFINE Less == {p \in Nat \X Nat : p[1] < p[2]}
<1>1. IsWellFoundedOn(Less, Nat)
  BY NatLessThanWellFounded DEF OpToRel
<1> HIDE DEF Less
<1>2. PICK x \in S : \A y \in S : <<y, x>> \notin Less
  BY <1>1, WFMin
<1>3. ASSUME NEW y \in S PROVE x <= y
  <2>1. <<y, x>> \in Nat \X Nat /\ <<y, x>> \notin Less /\ x \in Int /\ y \in Int
    BY <1>2
  <2> QED
    BY <2>1 DEF Less
<1> QED
  BY <1>3

(* The walk stops at the first session that is not done.                   *)
LEMMA WalkStops ==
  ASSUME BranchInv, N \in Nat, MaxWorkflows \in Nat, NEW w \in Branch!Rows
  PROVE  /\ Branch!At(w) \in workflows[w].first .. (workflows[w].last + 1)
         /\ Branch!At(w) \in Branch!Sessions(w) => ~Branch!SessionDone(w, Branch!At(w))
         /\ \A j \in workflows[w].first .. (Branch!At(w) - 1) : Branch!SessionDone(w, j)
<1> DEFINE first == workflows[w].first
           last == workflows[w].last
           Open == {k \in first .. (last + 1) : k \in Branch!Sessions(w) => ~Branch!SessionDone(w, k)}
           Stops == {k \in first .. (last + 1) : /\ k \in Branch!Sessions(w) => ~Branch!SessionDone(w, k)
                                                 /\ \A j \in first .. (k - 1) : Branch!SessionDone(w, j)}
<1>1. first \in Nat /\ last \in Nat /\ first <= last /\ Branch!Sessions(w) = first .. last
  <2>1. workflows[w] \in FlowType
    BY Typed DEF BranchInv, RowsTyped
  <2>2. first \in 1 .. N /\ last \in 1 .. N
    BY <2>1 DEF FlowType
  <2>3. first <= last
    BY DEF BranchInv, StartOK
  <2> QED
    BY <2>2, <2>3 DEF Branch!Sessions
<1>2. PICK k \in Open : \A j \in Open : k <= j
  <2>1. last + 1 \in Open /\ Open \subseteq Nat
    BY <1>1
  <2> QED
    BY <2>1, LeastOf
<1>3. k \in Stops
  BY <1>1, <1>2
<1>4. Branch!At(w) \in Stops
  <2>1. Branch!At(w) = CHOOSE x \in Stops : TRUE
    BY DEF Branch!At, Branch!Some
  <2> HIDE DEF Stops
  <2> QED
    BY <1>3, <2>1
<1> QED
  BY <1>4

(* What a row says of its sessions is never changed.                       *)
SameRow(w) ==
  /\ w \in Branch!Rows'
  /\ workflows'[w].material = workflows[w].material /\ workflows'[w].copy = workflows[w].copy
  /\ workflows'[w].first = workflows[w].first /\ workflows'[w].last = workflows[w].last
  /\ workflows'[w].chosen = workflows[w].chosen /\ workflows'[w].start = workflows[w].start

SettledStay == \A s \in Branch!Stage : job[s] \in {"succeeded", "collapsed", "faulty"} => job'[s] = job[s]

LEMMA SessionsOf ==
  ASSUME BranchTyped, N \in Nat, MaxWorkflows \in Nat, NEW w \in Branch!Rows
  PROVE  /\ Branch!Sessions(w) = workflows[w].first .. workflows[w].last
         /\ workflows[w].first \in 1 .. N /\ workflows[w].last \in 1 .. N /\ workflows[w].first \in Nat
         /\ Branch!Sessions(w) \subseteq 1 .. N /\ w \in Branch!Row
         /\ workflows[w].start \in Branch!Checkpoint
<1>1. workflows[w] \in FlowType /\ w \in Branch!Row
  BY Typed DEF RowsTyped
<1>2. workflows[w].first \in 1 .. N /\ workflows[w].last \in 1 .. N /\ workflows[w].start \in Branch!Checkpoint
  BY <1>1 DEF FlowType
<1>3. Branch!Sessions(w) = workflows[w].first .. workflows[w].last
  BY DEF Branch!Sessions
<1> QED
  BY <1>1, <1>2, <1>3

LEMMA SameSessions ==
  ASSUME NEW w \in Branch!Rows, SameRow(w)
  PROVE  /\ Branch!Sessions(w)' = Branch!Sessions(w)
         /\ \A k : Branch!Parent(w, k)' = Branch!Parent(w, k) /\ Branch!Id(w, k)' = Branch!Id(w, k)
BY DEF SameRow, Branch!Sessions, Branch!Parent, Branch!Id

LEMMA DoneStays ==
  ASSUME BranchTyped, N \in Nat, MaxWorkflows \in Nat, NEW w \in Branch!Rows, SameRow(w), SettledStay,
         NEW k \in Branch!Sessions(w)
  PROVE  /\ Branch!Trained(w, k) => Branch!Trained(w, k)'
         /\ Branch!SessionDone(w, k) => Branch!SessionDone(w, k)'
<1>1. <<w, k, "train">> \in Branch!Stage /\ <<w, k, "evaluate">> \in Branch!Stage
  BY SessionsOf DEF Branch!Stage
<1> QED
  BY <1>1 DEF SettledStay, SameRow, Branch!Trained, Branch!Evaluated, Branch!SessionDone

LEMMA StartStays ==
  ASSUME BranchInv, N \in Nat, MaxWorkflows \in Nat, SettledStay, retired \subseteq retired',
         \A w \in Branch!Rows : SameRow(w), NEW w \in Branch!Rows
  PROVE  StartOK(w)'
<1>1. StartOK(w)
  BY DEF BranchInv
<1>2. ASSUME NEW x \in Branch!Rows, NEW j \in Branch!Sessions(x), Branch!Trained(x, j), Branch!Parent(x, j) \in retired
      PROVE  /\ x \in Branch!Rows' /\ j \in Branch!Sessions(x)' /\ Branch!Trained(x, j)'
             /\ Branch!Parent(x, j)' \in retired' /\ workflows'[x].material = workflows[x].material
  <2>1. SameRow(x)
    OBVIOUS
  <2> QED
    BY <1>2, <2>1, SameSessions, DoneStays DEF SameRow, BranchInv
<1>3. SameRow(w)
  OBVIOUS
<1>4. ASSUME NEW p, p = workflows[w].start, workflows[w].first # 1
      PROVE  /\ p[1] \in Branch!Rows' /\ p[2] = workflows'[w].first - 1 /\ p[2] \in Branch!Sessions(p[1])'
             /\ workflows'[p[1]].material = workflows'[w].material
             /\ Branch!Trained(p[1], p[2])' /\ Branch!Parent(p[1], p[2])' \in retired'
  <2>1. /\ p[1] \in Branch!Rows /\ p[2] = workflows[w].first - 1 /\ p[2] \in Branch!Sessions(p[1])
        /\ workflows[p[1]].material = workflows[w].material
        /\ Branch!Trained(p[1], p[2]) /\ Branch!Parent(p[1], p[2]) \in retired
    BY <1>1, <1>4 DEF StartOK
  <2> QED
    BY <1>2, <1>3, <2>1 DEF SameRow
<1>5. workflows'[w].start = workflows[w].start /\ workflows'[w].first = workflows[w].first
  BY <1>3 DEF SameRow
<1> QED
  BY <1>1, <1>3, <1>4, <1>5 DEF StartOK, SameRow, Branch!Base, Branch!Sessions, Branch!Trained, Branch!Parent

LEMMA BlockedStays ==
  ASSUME BranchInv, N \in Nat, MaxWorkflows \in Nat, SettledStay, retired \subseteq retired', NEW w \in Branch!Rows,
         SameRow(w), \A k \in Branch!Sessions(w) : job[<<w, k, "train">>] = "none" => job'[<<w, k, "train">>] = "none",
         \/ workflows'[w].status # "blocked"
         \/ workflows'[w].status = workflows[w].status /\ workflows'[w].why = workflows[w].why
  PROVE  BlockedOK(w)'
<1> SUFFICES ASSUME workflows[w].status = "blocked", workflows[w].why = "retired input",
                    workflows'[w].status = "blocked"
             PROVE  BlockedOK(w)'
  BY DEF BlockedOK
<1>1. PICK f \in Branch!Sessions(w) :
        /\ Branch!Trained(w, f)
        /\ \A k \in Branch!Sessions(w) : k > f => job[<<w, k, "train">>] = "none"
        /\ Branch!Parent(w, f) \in retired \/ <<w, f>> \in retired
  BY DEF BranchInv, BlockedOK
<1>2. /\ Branch!Sessions(w)' = Branch!Sessions(w) /\ Branch!Parent(w, f)' = Branch!Parent(w, f)
      /\ Branch!Trained(w, f)'
  BY <1>1, SameSessions, DoneStays DEF BranchInv
<1> QED
  BY <1>1, <1>2 DEF BlockedOK

(* Jobs move on without a new one, and rows keep what they are.            *)
LEMMA MovesOn ==
  ASSUME BranchInv, BranchTyped', N \in Nat, MaxWorkflows \in Nat, SettledStay, retired \subseteq retired', UNCHANGED bound,
         \A w \in Branch!Rows : SameRow(w),
         \A s \in Branch!Stage : /\ job'[s] = "none" <=> job[s] = "none"
                                 /\ s[3] = "train" => job'[s] \notin {"collapsed", "gap"},
         \A w \in Branch!Rows : \/ BlockedOK(w)' \/ workflows'[w].status # "blocked"
                                \/ workflows'[w].status = workflows[w].status /\ workflows'[w].why = workflows[w].why,
         \A w \in Branch!Rows' \ Branch!Rows : StartOK(w)' /\ BlockedOK(w)'
  PROVE  BranchInv'
<1>1. ASSUME NEW w \in Branch!Row, NEW k \in 1 .. N PROVE StageOK(w, k)'
  <2>1. StageOK(w, k)
    BY DEF BranchInv
  <2> DEFINE train == <<w, k, "train">>
             evaluate == <<w, k, "evaluate">>
  <2>2. /\ train \in Branch!Stage /\ evaluate \in Branch!Stage /\ train[3] = "train"
    BY DEF Branch!Stage
  <2>3. /\ job'[train] = "none" <=> job[train] = "none"
        /\ job'[evaluate] = "none" <=> job[evaluate] = "none"
        /\ job'[train] \notin {"collapsed", "gap"}
        /\ job'[train] \notin {"none", "faulty"} => job[train] \notin {"none", "faulty"}
    BY <2>2 DEF SettledStay
  <2>4. CASE job[train] # "none" \/ job[evaluate] # "none"
    <3>1. /\ w \in Branch!Rows /\ k \in Branch!Sessions(w)
          /\ \A j \in workflows[w].first .. (k - 1) : Branch!SessionDone(w, j)
      BY <2>1, <2>4 DEF StageOK
    <3>2. SameRow(w) /\ Branch!Sessions(w)' = Branch!Sessions(w) /\ Branch!Id(w, k)' = Branch!Id(w, k)
      BY <3>1, SameSessions
    <3>3. \A j \in workflows[w].first .. (k - 1) : Branch!SessionDone(w, j)'
      <4>1. \A j \in workflows[w].first .. (k - 1) : j \in Branch!Sessions(w)
        BY <3>1, SessionsOf DEF BranchInv
      <4> QED
        BY <3>1, <3>2, <4>1, DoneStays DEF BranchInv
    <3>4. Branch!Trained(w, k) => Branch!Trained(w, k)'
      BY <3>1, <3>2, DoneStays DEF BranchInv
    <3>5. w \in Branch!Rows' /\ workflows'[w].first = workflows[w].first /\ workflows'[w].chosen = workflows[w].chosen
      BY <3>2 DEF SameRow
    <3> QED
      BY <2>1, <2>3, <3>1, <3>2, <3>3, <3>4, <3>5 DEF StageOK
  <2>5. CASE job[train] = "none" /\ job[evaluate] = "none"
    BY <2>3, <2>5 DEF StageOK
  <2> QED
    BY <2>4, <2>5
<1>2. ASSUME NEW w \in Branch!Rows PROVE StartOK(w)' /\ BlockedOK(w)'
  <2>1. \A k \in Branch!Sessions(w) : job[<<w, k, "train">>] = "none" => job'[<<w, k, "train">>] = "none"
    <3>1. \A k \in Branch!Sessions(w) : <<w, k, "train">> \in Branch!Stage
      BY SessionsOf DEF BranchInv, Branch!Stage
    <3> QED
      BY <3>1
  <2>2. StartOK(w)'
    BY StartStays
  <2>3. SameRow(w) /\ \/ BlockedOK(w)' \/ workflows'[w].status # "blocked"
                      \/ workflows'[w].status = workflows[w].status /\ workflows'[w].why = workflows[w].why
    OBVIOUS
  <2>4. BlockedOK(w)'
    BY <2>1, <2>3, BlockedStays
  <2> QED
    BY <2>2, <2>4
<1> QED
  BY <1>1, <1>2 DEF BranchInv, Branch!Row

(* A workflow is added.                                                    *)
LEMMA AppendedOK ==
  ASSUME BranchInv, N \in Nat, MaxWorkflows \in Nat, UNCHANGED <<job, bound, retired>>,
         asked' \in [Clients -> Materials \cup {Null}], Branch!Room,
         NEW r \in FlowType, workflows' = Append(workflows, r), r.status # "blocked", r.first <= r.last,
         ~r.copy => r.chosen = r.first .. r.last,
         IF r.first = 1 THEN r.start = Branch!Base
         ELSE /\ r.start[1] \in Branch!Rows /\ r.start[2] = r.first - 1 /\ r.start[2] \in Branch!Sessions(r.start[1])
              /\ workflows[r.start[1]].material = r.material
              /\ Branch!Trained(r.start[1], r.start[2]) /\ Branch!Parent(r.start[1], r.start[2]) \in retired
  PROVE  BranchInv'
<1>0. PICK n : n = Len(workflows) + 1
  OBVIOUS
<1>1. /\ workflows' \in Seq(FlowType) /\ Len(workflows') = n /\ n <= MaxWorkflows
      /\ Branch!Rows = 1 .. (n - 1) /\ Branch!Rows' = 1 .. n /\ n \in Nat
      /\ workflows'[n] = r /\ \A w \in Branch!Rows : workflows'[w] = workflows[w]
  BY <1>0 DEF BranchInv, BranchTyped, Branch!Rows, Branch!Room
<1>2. BranchTyped'
  BY <1>1 DEF BranchInv, BranchTyped, Branch!Stage, Branch!SessionId, Branch!Row
<1>3. \A w \in Branch!Rows : SameRow(w)
  BY <1>1 DEF SameRow
<1>4. SettledStay
  BY DEF SettledStay
<1>5. \A s \in Branch!Stage : s[3] = "train" => job[s] \notin {"collapsed", "gap"}
  <2>1. \A w \in Branch!Row, k \in 1 .. N : job[<<w, k, "train">>] \notin {"collapsed", "gap"}
    BY DEF BranchInv, StageOK
  <2>2. \A s \in Branch!Stage : s[3] = "train" => \E w \in Branch!Row, k \in 1 .. N : s = <<w, k, "train">>
    BY DEF Branch!Stage
  <2> QED
    BY <2>1, <2>2
<1>6. BlockedOK(n)'
  BY <1>1 DEF BlockedOK
<1>7. StartOK(n)'
  <2>1. ASSUME NEW p, p = r.start, r.first # 1
        PROVE  /\ p[1] \in Branch!Rows' /\ p[2] = r.first - 1 /\ p[2] \in Branch!Sessions(p[1])'
               /\ workflows'[p[1]].material = r.material
               /\ Branch!Trained(p[1], p[2])' /\ Branch!Parent(p[1], p[2])' \in retired'
    <3>1. p[1] \in Branch!Rows /\ SameRow(p[1])
      BY <1>3, <2>1
    <3> QED
      BY <1>1, <2>1, <3>1, SameSessions DEF SameRow, Branch!Trained
  <2> QED
    BY <1>1, <2>1 DEF StartOK, Branch!Base, Branch!Sessions, Branch!Trained, Branch!Parent
<1>8. Branch!Rows' \ Branch!Rows = {n}
  BY <1>1
<1> QED
  BY <1>1, <1>2, <1>3, <1>4, <1>5, <1>6, <1>7, <1>8, MovesOn

LEMMA TypedNext ==
  ASSUME workflows' \in Seq(FlowType), Len(workflows') <= MaxWorkflows, job' \in [Branch!Stage -> Statuses],
         bound' \in [Branch!SessionId -> Branch!Stage \cup {Null}], asked' \in [Clients -> Materials \cup {Null}]
  PROVE  BranchTyped'
BY DEF BranchTyped, Branch!Stage, Branch!SessionId, Branch!Row

(* One job that has not ended for good moves on.                           *)
JobsMove ==
  /\ job' \in [Branch!Stage -> Statuses] /\ SettledStay
  /\ \A s \in Branch!Stage : /\ job'[s] = "none" <=> job[s] = "none"
                             /\ s[3] = "train" => job'[s] \notin {"collapsed", "gap"}

LEMMA TrainsOnly ==
  ASSUME BranchInv, NEW s \in Branch!Stage, s[3] = "train" PROVE job[s] \notin {"collapsed", "gap"}
<1>1. PICK w \in Branch!Row, k \in 1 .. N : s = <<w, k, "train">>
  BY DEF Branch!Stage
<1> QED
  BY <1>1 DEF BranchInv, StageOK

LEMMA JobMoves ==
  ASSUME BranchInv, NEW s \in Branch!Stage, NEW x \in Statuses \ {"none"}, job' = [job EXCEPT ![s] = x],
         job[s] \notin {"none", "succeeded", "collapsed", "faulty"}, s[3] = "train" => x \notin {"collapsed", "gap"}
  PROVE  JobsMove
BY TrainsOnly DEF JobsMove, SettledStay, BranchInv, BranchTyped

LEMMA JobsRest ==
  ASSUME BranchInv, UNCHANGED job PROVE JobsMove
BY TrainsOnly DEF JobsMove, SettledStay, BranchInv, BranchTyped

LEMMA RowsRest ==
  ASSUME BranchTyped, UNCHANGED workflows
  PROVE  /\ workflows' \in Seq(FlowType) /\ Len(workflows') <= MaxWorkflows
         /\ Branch!Rows' = Branch!Rows /\ \A w \in Branch!Rows : SameRow(w)
BY DEF BranchTyped, SameRow, Branch!Rows

LEMMA FunctionIsSeq ==
  ASSUME NEW S, NEW n \in Nat, NEW r \in [1 .. n -> S]
  PROVE  r \in Seq(S) /\ Len(r) = n
<1>1. r = [i \in 1 .. n |-> r[i]] /\ \A i \in 1 .. n : r[i] \in S
  OBVIOUS
<1>2. r \in Seq(S)
  BY SeqDef
<1>3. Len(r) \in Nat /\ DOMAIN r = 1 .. Len(r) /\ DOMAIN r = 1 .. n
  BY <1>1, <1>2, LenProperties
<1> QED
  BY <1>2, <1>3

LEMMA StatusSet ==
  ASSUME BranchTyped, N \in Nat, MaxWorkflows \in Nat, NEW w \in Branch!Rows,
         NEW to \in {"active", "succeeded", "failed", "blocked"}, NEW reason \in {"", "retired input", "other"},
         Branch!SetStatus(w, to, reason)
  PROVE  /\ workflows' \in Seq(FlowType) /\ Len(workflows') <= MaxWorkflows
         /\ Branch!Rows' = Branch!Rows /\ \A v \in Branch!Rows : SameRow(v)
         /\ workflows'[w].status = to /\ workflows'[w].why = reason
         /\ \A v \in Branch!Rows \ {w} : workflows'[v] = workflows[v]
<1>8. DOMAIN workflows = 1 .. Len(workflows) /\ Len(workflows) \in Nat /\ w \in DOMAIN workflows
  BY Typed DEF RowsTyped, BranchTyped, Branch!Rows
<1>2. \A v \in 1 .. Len(workflows) : workflows[v] \in FlowType
  BY Typed DEF RowsTyped
<1> DEFINE half == [workflows[w] EXCEPT !.status = to]
           new == [half EXCEPT !.why = reason]
           middle == [workflows EXCEPT ![w] = half]
<1>1. workflows \in Seq(FlowType) /\ Branch!Rows = 1 .. Len(workflows) /\ Len(workflows) \in Nat
  BY Typed DEF RowsTyped, BranchTyped
<1>3. workflows[w] \in FlowType
  BY Typed DEF RowsTyped
<1>4. /\ new \in FlowType /\ new.status = to /\ new.why = reason
      /\ new.material = workflows[w].material /\ new.copy = workflows[w].copy
      /\ new.first = workflows[w].first /\ new.last = workflows[w].last
      /\ new.chosen = workflows[w].chosen /\ new.start = workflows[w].start
  BY <1>3 DEF FlowType
<1>5. workflows' = [middle EXCEPT ![w] = [middle[w] EXCEPT !.why = reason]]
  BY DEF Branch!SetStatus
<1> HIDE DEF half
<1>6. middle[w] = half
  BY <1>1, <1>8
<1>7. workflows' = [middle EXCEPT ![w] = new]
  BY <1>5, <1>6
<1> HIDE DEF new
<1>9. workflows' = [workflows EXCEPT ![w] = new]
  BY <1>7, <1>8
<1>12. /\ workflows' \in Seq(FlowType) /\ Len(workflows') = Len(workflows)
       /\ DOMAIN workflows' = DOMAIN workflows
       /\ \A v \in 1 .. Len(workflows) : workflows'[v] = IF v = w THEN new ELSE workflows[v]
  <2>1. PICK n \in Nat : n = Len(workflows)
    BY <1>8
  <2>2. workflows' = [v \in 1 .. n |-> IF v = w THEN new ELSE workflows[v]]
    BY <1>8, <1>9, <2>1
  <2>3. \A v \in 1 .. n : (IF v = w THEN new ELSE workflows[v]) \in FlowType
    BY <1>2, <1>4, <2>1
  <2>4. workflows' \in [1 .. n -> FlowType]
    BY <2>2, <2>3
  <2>5. workflows' \in Seq(FlowType) /\ Len(workflows') = n
    BY <2>4, FunctionIsSeq
  <2> QED
    BY <1>8, <2>1, <2>2, <2>5
<1>13. Branch!Rows' = Branch!Rows
  BY <1>12 DEF Branch!Rows
<1>14. \A v \in Branch!Rows : workflows'[v] = IF v = w THEN new ELSE workflows[v]
  BY <1>1, <1>12
<1>15. \A v \in Branch!Rows : SameRow(v)
  BY <1>4, <1>13, <1>14 DEF SameRow
<1> QED
  BY <1>4, <1>12, <1>13, <1>14, <1>15 DEF BranchTyped

(* Behind a session that is not done nothing is trained.                   *)
LEMMA NoneBehind ==
  ASSUME BranchInv, N \in Nat, MaxWorkflows \in Nat, NEW w \in Branch!Rows, NEW k \in Branch!Sessions(w),
         ~Branch!SessionDone(w, k)
  PROVE  \A j \in Branch!Sessions(w) : j > k => job[<<w, j, "train">>] = "none"
<1> SUFFICES ASSUME NEW j \in Branch!Sessions(w), j > k, job[<<w, j, "train">>] # "none" PROVE FALSE
  OBVIOUS
<1>1. j \in 1 .. N /\ w \in Branch!Row /\ k \in 1 .. N /\ k >= workflows[w].first /\ workflows[w].first \in Nat
  BY SessionsOf DEF BranchInv
<1>2. StageOK(w, j)
  BY <1>1 DEF BranchInv
<1>3. k \in workflows[w].first .. (j - 1)
  BY <1>1
<1> QED
  BY <1>2, <1>3 DEF StageOK

BranchAssumption == N \in Nat \ {0} /\ MaxWorkflows \in Nat /\ Null \notin Branch!Stage

LEMMA RowsKept ==
  ASSUME BranchInv, BranchAssumption, UNCHANGED <<workflows, bound>>, JobsMove, retired \subseteq retired',
         asked' \in [Clients -> Materials \cup {Null}]
  PROVE  BranchInv'
<1>1. /\ workflows' \in Seq(FlowType) /\ Len(workflows') <= MaxWorkflows
      /\ Branch!Rows' = Branch!Rows /\ \A w \in Branch!Rows : SameRow(w)
  BY RowsRest DEF BranchInv
<1>2. BranchTyped'
  <2>1. bound' \in [Branch!SessionId -> Branch!Stage \cup {Null}] /\ job' \in [Branch!Stage -> Statuses]
    BY DEF BranchInv, BranchTyped, JobsMove
  <2> QED
    BY <1>1, <2>1, TypedNext
<1>3. Branch!Rows' \ Branch!Rows = {}
  BY <1>1
<1>4. /\ SettledStay /\ N \in Nat /\ MaxWorkflows \in Nat /\ UNCHANGED bound
      /\ \A s \in Branch!Stage : /\ job'[s] = "none" <=> job[s] = "none"
                                 /\ s[3] = "train" => job'[s] \notin {"collapsed", "gap"}
      /\ \A w \in Branch!Rows : /\ workflows'[w].status = workflows[w].status
                                 /\ workflows'[w].why = workflows[w].why
  BY DEF JobsMove, BranchAssumption
<1> QED
  BY <1>1, <1>2, <1>3, <1>4, MovesOn

LEMMA StatusMoves ==
  ASSUME BranchInv, BranchAssumption, NEW w \in Branch!Rows,
         NEW to \in {"active", "succeeded", "failed", "blocked"}, NEW reason \in {"", "retired input", "other"},
         Branch!SetStatus(w, to, reason), JobsMove, UNCHANGED <<bound, retired, asked>>,
         \/ to # "blocked" \/ reason # "retired input" \/ BlockedOK(w)'
  PROVE  BranchInv'
<1>0. N \in Nat /\ MaxWorkflows \in Nat
  BY DEF BranchAssumption
<1>1. /\ workflows' \in Seq(FlowType) /\ Len(workflows') <= MaxWorkflows
      /\ Branch!Rows' = Branch!Rows /\ \A v \in Branch!Rows : SameRow(v)
      /\ workflows'[w].status = to /\ workflows'[w].why = reason
      /\ \A v \in Branch!Rows \ {w} : workflows'[v] = workflows[v]
  BY <1>0, StatusSet DEF BranchInv
<1>2. BranchTyped'
  <2>1. /\ bound' \in [Branch!SessionId -> Branch!Stage \cup {Null}] /\ job' \in [Branch!Stage -> Statuses]
        /\ asked' \in [Clients -> Materials \cup {Null}]
    BY DEF BranchInv, BranchTyped, JobsMove
  <2> QED
    BY <1>1, <2>1, TypedNext
<1>3. BlockedOK(w)'
  BY <1>1 DEF BlockedOK
<1>4. \A v \in Branch!Rows : \/ BlockedOK(v)' \/ workflows'[v].status # "blocked"
                             \/ workflows'[v].status = workflows[v].status /\ workflows'[v].why = workflows[v].why
  BY <1>1, <1>3
<1>5. /\ SettledStay /\ retired \subseteq retired'
      /\ \A s \in Branch!Stage : /\ job'[s] = "none" <=> job[s] = "none"
                                 /\ s[3] = "train" => job'[s] \notin {"collapsed", "gap"}
  BY DEF JobsMove
<1>6. Branch!Rows' \ Branch!Rows = {}
  BY <1>1
<1> QED
  BY <1>0, <1>1, <1>2, <1>4, <1>5, <1>6, MovesOn

LEMMA SimpleSteps ==
  ASSUME BranchInv, BranchAssumption,
         \/ Branch!AskToAuthorize
         \/ \E w \in Branch!Rows : \/ Branch!RetryStage(w) \/ Branch!ReopenReconstruction(w)
                                   \/ Branch!Terminate(w) \/ Branch!Finish(w)
         \/ Branch!Lease \/ Branch!EndRun \/ Branch!Retire \/ Branch!SwitchPipeline \/ UNCHANGED Branch!vars
  PROVE  BranchInv'
<1>0. asked \in [Clients -> Materials \cup {Null}]
  BY DEF BranchInv, BranchTyped
<1>1. CASE Branch!AskToAuthorize
  <2>1. asked' \in [Clients -> Materials \cup {Null}] /\ UNCHANGED <<workflows, job, bound, retired>>
    BY <1>0, <1>1 DEF Branch!AskToAuthorize
  <2> QED
    BY <2>1, JobsRest, RowsKept
<1>2. ASSUME NEW w \in Branch!Rows, Branch!RetryStage(w) PROVE BranchInv'
  <2>1. PICK s \in Branch!StagesOf(w) : job[s] = "transient" /\ job' = [job EXCEPT ![s] = "queued"]
    BY <1>2 DEF Branch!RetryStage
  <2>2. s \in Branch!Stage
    BY DEF Branch!StagesOf
  <2>3. JobsMove
    BY <2>1, <2>2, JobMoves DEF Statuses
  <2>4. Branch!SetStatus(w, "active", "") /\ UNCHANGED <<bound, retired, asked>>
    BY <1>2 DEF Branch!RetryStage
  <2> QED
    BY <2>3, <2>4, StatusMoves
<1>3. ASSUME NEW w \in Branch!Rows, Branch!ReopenReconstruction(w) \/ Branch!Terminate(w) \/ Branch!Finish(w)
      PROVE  BranchInv'
  <2>1. /\ UNCHANGED <<job, bound, retired, asked>>
        /\ \/ Branch!SetStatus(w, "active", "") \/ Branch!SetStatus(w, "failed", "other")
           \/ Branch!SetStatus(w, "succeeded", "")
    BY <1>3 DEF Branch!ReopenReconstruction, Branch!Terminate, Branch!Finish
  <2>2. JobsMove
    BY <2>1, JobsRest
  <2> QED
    BY <2>1, <2>2, StatusMoves
<1>4. CASE Branch!Lease
  <2>1. PICK s \in Branch!Stage : job[s] = "queued" /\ job' = [job EXCEPT ![s] = "running"]
    BY <1>4 DEF Branch!Lease
  <2>2. JobsMove
    BY <2>1, JobMoves DEF Statuses
  <2> QED
    BY <1>0, <1>4, <2>2, RowsKept DEF Branch!Lease
<1>5. CASE Branch!EndRun
  <2>1. PICK s \in Branch!Stage :
          /\ job[s] = "running" /\ UNCHANGED <<workflows, bound, retired, asked>>
          /\ \E x \in IF s[3] = "train" THEN {"succeeded", "transient", "faulty"}
                                        ELSE {"succeeded", "transient", "collapsed"} : job' = [job EXCEPT ![s] = x]
    BY <1>5 DEF Branch!EndRun
  <2>2. PICK x \in {"succeeded", "transient", "faulty", "collapsed"} :
          job' = [job EXCEPT ![s] = x] /\ (s[3] = "train" => x # "collapsed")
    BY <2>1
  <2>3. JobsMove
    BY <2>1, <2>2, JobMoves DEF Statuses
  <2> QED
    BY <1>0, <2>1, <2>3, RowsKept
<1>6. CASE Branch!Retire
  <2>1. UNCHANGED <<workflows, job, bound, asked>> /\ retired \subseteq retired'
    BY <1>6 DEF Branch!Retire
  <2> QED
    BY <1>0, <2>1, JobsRest, RowsKept
<1>7. CASE Branch!SwitchPipeline \/ UNCHANGED Branch!vars
  <2>1. UNCHANGED <<workflows, job, bound, asked, retired>>
    BY <1>7 DEF Branch!SwitchPipeline, Branch!vars
  <2> QED
    BY <1>0, <2>1, JobsRest, RowsKept
<1> QED
  BY <1>1, <1>2, <1>3, <1>4, <1>5, <1>6, <1>7

LEMMA BlocksForRetired ==
  ASSUME BranchInv, BranchAssumption, NEW w \in Branch!Rows, NEW k \in Branch!Sessions(w),
         Branch!Trained(w, k), ~Branch!SessionDone(w, k), SameRow(w), JobsMove, retired \subseteq retired',
         Branch!Parent(w, k) \in retired \/ <<w, k>> \in retired
  PROVE  BlockedOK(w)'
<1>0. N \in Nat /\ MaxWorkflows \in Nat /\ BranchTyped /\ SettledStay
  BY DEF BranchAssumption, BranchInv, JobsMove
<1>1. /\ Branch!Sessions(w)' = Branch!Sessions(w) /\ Branch!Parent(w, k)' = Branch!Parent(w, k)
      /\ Branch!Trained(w, k)'
  BY <1>0, SameSessions, DoneStays
<1>2. \A j \in Branch!Sessions(w) : j > k => job[<<w, j, "train">>] = "none"
  BY <1>0, NoneBehind
<1>3. \A j \in Branch!Sessions(w) : <<w, j, "train">> \in Branch!Stage
  BY <1>0, SessionsOf DEF Branch!Stage
<1>4. \A j \in Branch!Sessions(w) : j > k => job'[<<w, j, "train">>] = "none"
  BY <1>2, <1>3 DEF JobsMove
<1> QED
  BY <1>1, <1>4 DEF BlockedOK

LEMMA RetiredParentStep ==
  ASSUME BranchInv, BranchAssumption, NEW w \in Branch!Rows, Branch!BlockForRetiredParent(w)
  PROVE  BranchInv'
<1>0. N \in Nat /\ MaxWorkflows \in Nat /\ BranchTyped
  BY DEF BranchAssumption, BranchInv
<1>1. PICK s \in Branch!StagesOf(w) :
        /\ {t \in Branch!StagesOf(w) : t[3] = "evaluate" /\ job[t] = "queued"} = {s}
        /\ Branch!GapBacked(w, s[2])
        /\ job' = [job EXCEPT ![s] = "gap"]
  BY DEF Branch!BlockForRetiredParent
<1>2. Branch!SetStatus(w, "blocked", "retired input") /\ UNCHANGED <<bound, retired, asked>>
  BY DEF Branch!BlockForRetiredParent
<1>3. s \in Branch!Stage /\ s[1] = w /\ s[3] = "evaluate" /\ job[s] = "queued"
  BY <1>1 DEF Branch!StagesOf
<1>4. PICK k \in 1 .. N : s = <<w, k, "evaluate">> /\ w \in Branch!Row /\ s[2] = k
  BY <1>3 DEF Branch!Stage
<1>5. StageOK(w, k)
  BY <1>4 DEF BranchInv
<1>6. k \in Branch!Sessions(w) /\ Branch!Trained(w, k) /\ ~Branch!SessionDone(w, k)
  BY <1>3, <1>4, <1>5 DEF StageOK, Branch!SessionDone, Branch!Evaluated
<1>7. JobsMove
  BY <1>1, <1>3, JobMoves DEF Statuses
<1>8. SameRow(w)
  BY <1>0, <1>2, StatusSet
<1>9. BlockedOK(w)'
  BY <1>1, <1>2, <1>4, <1>6, <1>7, <1>8, BlocksForRetired DEF Branch!GapBacked
<1> QED
  BY <1>2, <1>7, <1>9, StatusMoves

LEMMA BlockStep ==
  ASSUME BranchInv, BranchAssumption, NEW w \in Branch!Rows, Branch!Block(w)
  PROVE  BranchInv'
<1>0. N \in Nat /\ MaxWorkflows \in Nat /\ BranchTyped
  BY DEF BranchAssumption, BranchInv
<1>1. UNCHANGED <<job, bound, retired, asked>>
  BY DEF Branch!Block
<1>2. JobsMove
  BY <1>1, JobsRest
<1>3. CASE Branch!SetStatus(w, "blocked", "other")
  BY <1>1, <1>2, <1>3, StatusMoves
<1>4. ASSUME Branch!Due(w), Branch!Missing(w)[3] = "evaluate", Branch!Inputs(Branch!Missing(w)) \cap retired # {},
             Branch!SetStatus(w, "blocked", "retired input")
      PROVE  BranchInv'
  <2>1. PICK k : k = Branch!At(w)
    OBVIOUS
  <2>2. k \in Branch!Sessions(w) /\ Branch!Trained(w, k) /\ Branch!Missing(w) = <<w, k, "evaluate">>
    BY <1>4, <2>1 DEF Branch!Due, Branch!Missing
  <2>3. ~Branch!SessionDone(w, k)
    BY <1>0, <2>1, <2>2, WalkStops
  <2>4. Branch!Parent(w, k) \in retired \/ <<w, k>> \in retired
    <3>1. Branch!Inputs(<<w, k, "evaluate">>) = {Branch!Parent(w, k), <<w, k>>}
      BY DEF Branch!Inputs
    <3> QED
      BY <1>4, <2>2, <3>1
  <2>5. SameRow(w)
    BY <1>0, <1>4, StatusSet
  <2>6. BlockedOK(w)'
    BY <1>1, <1>2, <2>2, <2>3, <2>4, <2>5, BlocksForRetired
  <2> QED
    BY <1>1, <1>2, <1>4, <2>6, StatusMoves
<1> QED
  BY <1>3, <1>4 DEF Branch!Block

LEMMA AuthorizeStep ==
  ASSUME BranchInv, BranchAssumption, Branch!Authorize PROVE BranchInv'
<1>1. PICK c \in Clients : /\ asked[c] # Null /\ Branch!Room
                           /\ workflows' = Append(workflows, Branch!Recipe(asked[c]))
                           /\ asked' = [asked EXCEPT ![c] = Null]
                           /\ UNCHANGED <<job, bound, retired>>
  BY DEF Branch!Authorize
<1>2. asked \in [Clients -> Materials \cup {Null}] /\ asked[c] \in Materials
  BY <1>1 DEF BranchInv, BranchTyped
<1>3. PICK r : r = Branch!Recipe(asked[c])
  OBVIOUS
<1>4. /\ r \in FlowType /\ r.status # "blocked" /\ r.first = 1 /\ r.first <= r.last
      /\ r.chosen = r.first .. r.last /\ r.start = Branch!Base
  <2>1. N \in 1 .. N /\ 1 \in 1 .. N /\ 1 <= N /\ 1 .. N \in SUBSET (1 .. N) /\ Branch!Base \in Branch!Checkpoint
    BY DEF BranchAssumption, Branch!Checkpoint
  <2> QED
    BY <1>2, <1>3, <2>1 DEF Branch!Recipe, FlowType
<1>5. asked' \in [Clients -> Materials \cup {Null}] /\ N \in Nat /\ MaxWorkflows \in Nat
  BY <1>1, <1>2 DEF BranchAssumption
<1> QED
  BY <1>1, <1>3, <1>4, <1>5, AppendedOK

LEMMA ContinueStep ==
  ASSUME BranchInv, BranchAssumption, NEW w \in Branch!Rows, Branch!Continue(w) PROVE BranchInv'
<1>0. N \in Nat /\ MaxWorkflows \in Nat /\ BranchTyped
  BY DEF BranchAssumption, BranchInv
<1>1. PICK f : f = Branch!Largest(Branch!TrainedIn(w))
  OBVIOUS
<1>2. /\ workflows[w].status = "blocked" /\ workflows[w].why = "retired input" /\ Branch!Room
      /\ f < workflows[w].last /\ <<w, f>> \notin retired
      /\ workflows' = Append(workflows,
              [workflows[w] EXCEPT !.first = f + 1, !.start = <<w, f>>, !.status = "active", !.why = "",
                                   !.chosen = (f + 1) .. workflows[w].last])
      /\ UNCHANGED <<job, bound, retired, asked>>
  BY <1>1 DEF Branch!Continue, Branch!MissingEvaluation
<1>3. PICK g \in Branch!Sessions(w) :
        /\ Branch!Trained(w, g)
        /\ \A k \in Branch!Sessions(w) : k > g => job[<<w, k, "train">>] = "none"
        /\ Branch!Parent(w, g) \in retired \/ <<w, g>> \in retired
  BY <1>2 DEF BranchInv, BlockedOK
<1>4. g \in 1 .. N /\ Branch!Sessions(w) \subseteq 1 .. N /\ w \in Branch!Row
  BY <1>0, SessionsOf
<1>5. f = g
  <2>1. g \in Branch!TrainedIn(w) /\ Branch!TrainedIn(w) \subseteq 1 .. N
    BY <1>3, <1>4 DEF Branch!TrainedIn, Branch!Trained
  <2>2. \A y \in Branch!TrainedIn(w) : y <= g
    BY <1>3, <1>4 DEF Branch!TrainedIn
  <2>3. f \in Branch!TrainedIn(w) /\ \A y \in Branch!TrainedIn(w) : y <= f
    BY <1>1, <2>1, <2>2 DEF Branch!Largest
  <2> QED
    BY <2>1, <2>2, <2>3
<1>6. workflows[w] \in FlowType
  BY <1>0, Typed DEF RowsTyped
<1>7. PICK r : r = [workflows[w] EXCEPT !.first = f + 1, !.start = <<w, f>>, !.status = "active", !.why = "",
                                        !.chosen = (f + 1) .. workflows[w].last]
  OBVIOUS
<1>8. /\ r.first = f + 1 /\ r.last = workflows[w].last /\ r.chosen = (f + 1) .. workflows[w].last
      /\ r.start = <<w, f>> /\ r.status = "active" /\ r.material = workflows[w].material
  BY <1>6, <1>7 DEF FlowType
<1>9. workflows[w].last \in 1 .. N /\ f \in 1 .. N /\ f + 1 \in 1 .. N /\ f + 1 <= workflows[w].last
  <2>1. PICK last : last = workflows[w].last
    OBVIOUS
  <2>2. last \in 1 .. N /\ f \in 1 .. N /\ f < last /\ N \in Nat
    BY <1>0, <1>2, <1>4, <1>5, <2>1, SessionsOf
  <2> QED
    BY <2>1, <2>2
<1>10. <<w, f>> \in Branch!Checkpoint /\ (f + 1) .. workflows[w].last \in SUBSET (1 .. N)
  <2>1. \A last \in 1 .. N : (f + 1) .. last \subseteq 1 .. N
    BY <1>0, <1>9
  <2> QED
    BY <1>4, <1>9, <2>1 DEF Branch!Checkpoint
<1>11. r \in FlowType
  BY <1>6, <1>7, <1>9, <1>10 DEF FlowType
<1>12. /\ r.first # 1 /\ r.first <= r.last /\ r.chosen = r.first .. r.last /\ r.status # "blocked"
       /\ r.start[1] = w /\ r.start[2] = r.first - 1 /\ r.start[2] = g
  <2>1. f + 1 # 1 /\ f = (f + 1) - 1
    BY <1>9
  <2> QED
    BY <1>5, <1>8, <1>9, <2>1
<1>13. asked' \in [Clients -> Materials \cup {Null}]
  BY <1>0, <1>2 DEF BranchTyped
<1>14. workflows' = Append(workflows, r)
  BY <1>2, <1>7
<1>15. Branch!Parent(w, g) \in retired
  BY <1>2, <1>3, <1>5
<1> QED
  BY <1>0, <1>2, <1>3, <1>8, <1>11, <1>12, <1>13, <1>14, <1>15, AppendedOK

LEMMA ReconstructStep ==
  ASSUME BranchInv, BranchAssumption, NEW w \in Branch!Rows, Branch!Reconstruct(w) PROVE BranchInv'
<1>0. N \in Nat /\ MaxWorkflows \in Nat /\ BranchTyped
  BY DEF BranchAssumption, BranchInv
<1>1. PICK prefix \in Prefixes :
        /\ prefix.last \in Branch!Sessions(w) /\ prefix.chosen \subseteq Branch!Sessions(w)
        /\ workflows' = Append(workflows,
              [workflows[w] EXCEPT !.last = prefix.last, !.chosen = prefix.chosen,
                                   !.copy = TRUE, !.status = "active"])
  BY DEF Branch!Reconstruct
<1>2. Branch!Room /\ UNCHANGED <<job, bound, retired, asked>>
  BY DEF Branch!Reconstruct
<1>3. PICK r : r = [workflows[w] EXCEPT !.last = prefix.last, !.chosen = prefix.chosen,
                                        !.copy = TRUE, !.status = "active"]
  OBVIOUS
<1>4. workflows[w] \in FlowType
  BY <1>0, Typed DEF RowsTyped
<1>5. /\ Branch!Sessions(w) = workflows[w].first .. workflows[w].last /\ Branch!Sessions(w) \subseteq 1 .. N
      /\ workflows[w].first \in 1 .. N
  BY <1>0, SessionsOf
<1>6. /\ r.first = workflows[w].first /\ r.last = prefix.last /\ r.copy = TRUE /\ r.status = "active"
      /\ r.start = workflows[w].start /\ r.material = workflows[w].material
  BY <1>3, <1>4 DEF FlowType
<1>7. r \in FlowType
  <2>1. prefix.last \in 1 .. N /\ prefix.chosen \in SUBSET (1 .. N)
    BY <1>1, <1>5
  <2> QED
    BY <1>3, <1>4, <2>1 DEF FlowType
<1>8. r.first <= r.last
  BY <1>1, <1>5, <1>6
<1>9. StartOK(w)
  BY DEF BranchInv
<1>10. IF r.first = 1 THEN r.start = Branch!Base
       ELSE /\ r.start[1] \in Branch!Rows /\ r.start[2] = r.first - 1 /\ r.start[2] \in Branch!Sessions(r.start[1])
            /\ workflows[r.start[1]].material = r.material
            /\ Branch!Trained(r.start[1], r.start[2]) /\ Branch!Parent(r.start[1], r.start[2]) \in retired
  BY <1>6, <1>9 DEF StartOK
<1>11. asked' \in [Clients -> Materials \cup {Null}] /\ workflows' = Append(workflows, r)
  BY <1>0, <1>1, <1>2, <1>3 DEF BranchTyped
<1> QED
  BY <1>0, <1>2, <1>6, <1>7, <1>8, <1>10, <1>11, AppendedOK

(* A session that is created is the first that is not done, and the ledger *)
(* has not admitted it for another job.                                    *)
LEMMA CreateStep ==
  ASSUME BranchInv, BranchAssumption, NEW w \in Branch!Rows, Branch!CreateStage(w) PROVE BranchInv'
<1>0. N \in Nat /\ MaxWorkflows \in Nat /\ BranchTyped
  BY DEF BranchAssumption, BranchInv
<1>1. PICK k : k = Branch!At(w)
  OBVIOUS
<1>2. PICK s : s = Branch!Missing(w)
  OBVIOUS
<1>3. /\ Branch!Active(w) /\ k \in Branch!Sessions(w) /\ job[s] = "none" /\ ~Branch!Refused(s)
      /\ job' = [job EXCEPT ![s] = "queued"]
      /\ bound' = IF s[3] = "train" THEN [bound EXCEPT ![Branch!Id(w, s[2])] = s] ELSE bound
      /\ UNCHANGED <<workflows, retired, asked>>
  BY <1>1, <1>2 DEF Branch!CreateStage, Branch!Due, Branch!Coordinating
<1>4. /\ k \in 1 .. N /\ w \in Branch!Row /\ Branch!Sessions(w) = workflows[w].first .. workflows[w].last
  BY <1>0, <1>3, SessionsOf
<1>5. /\ ~Branch!SessionDone(w, k)
      /\ \A j \in workflows[w].first .. (k - 1) : Branch!SessionDone(w, j)
  BY <1>0, <1>1, <1>3, WalkStops
<1>6. /\ s = <<w, k, "evaluate">> \/ s = <<w, k, "train">>
      /\ s = <<w, k, "evaluate">> <=> Branch!Trained(w, k)
  BY <1>1, <1>2 DEF Branch!Missing
<1>7. s \in Branch!Stage
  BY <1>4, <1>6 DEF Branch!Stage
<1>8. /\ job \in [Branch!Stage -> Statuses] /\ bound \in [Branch!SessionId -> Branch!Stage \cup {Null}]
      /\ asked \in [Clients -> Materials \cup {Null}]
  BY <1>0 DEF BranchTyped
<1>9. \A t \in Branch!Stage : job'[t] = IF t = s THEN "queued" ELSE job[t]
  BY <1>3, <1>8
<1>10. \A v \in Branch!Row, j \in 1 .. N : <<v, j, "train">> \in Branch!Stage /\ <<v, j, "evaluate">> \in Branch!Stage
  BY DEF Branch!Stage
<1>11. SettledStay
  BY <1>3, <1>9 DEF SettledStay
<1>12. /\ workflows' \in Seq(FlowType) /\ Len(workflows') <= MaxWorkflows
       /\ Branch!Rows' = Branch!Rows /\ \A v \in Branch!Rows : SameRow(v)
  BY <1>0, <1>3, RowsRest
<1>13. BranchTyped'
  <2>1. job' \in [Branch!Stage -> Statuses]
    BY <1>3, <1>7, <1>8 DEF Statuses
  <2>2. bound' \in [Branch!SessionId -> Branch!Stage \cup {Null}]
    BY <1>3, <1>7, <1>8
  <2> QED
    BY <1>3, <1>8, <1>12, <2>1, <2>2, TypedNext
<1>14. s[3] = "train" => bound[Branch!Id(w, k)] = Null /\ s = <<w, k, "train">>
  BY <1>3, <1>6 DEF Branch!Refused, Branch!Admitted
<1>15. Branch!Id(w, k) \in Branch!SessionId
  <2>1. workflows[w] \in FlowType
    BY <1>0, Typed DEF RowsTyped
  <2>2. workflows[w].material \in Materials /\ 0 \in 0 .. MaxWorkflows /\ w \in 0 .. MaxWorkflows
    <3>1. workflows[w].material \in Materials
      BY <2>1 DEF FlowType
    <3>2. 0 \in 0 .. MaxWorkflows /\ w \in 0 .. MaxWorkflows
      BY <1>0, <1>4 DEF Branch!Row
    <3> QED
      BY <3>1, <3>2
  <2> QED
    BY <1>4, <2>2 DEF Branch!Id, Branch!SessionId
<1>16. ASSUME NEW v \in Branch!Row, NEW j \in 1 .. N PROVE StageOK(v, j)'
  <2>1. StageOK(v, j)
    BY DEF BranchInv
  <2>2. /\ job'[<<v, j, "train">>] = IF <<v, j, "train">> = s THEN "queued" ELSE job[<<v, j, "train">>]
        /\ job'[<<v, j, "evaluate">>] = IF <<v, j, "evaluate">> = s THEN "queued" ELSE job[<<v, j, "evaluate">>]
    BY <1>9, <1>10
  <2>3. /\ v = w /\ j = k => \A i \in workflows[v].first .. (j - 1) : Branch!SessionDone(v, i)
        /\ v = w /\ j = k => v \in Branch!Rows /\ j \in Branch!Sessions(v)
    BY <1>3, <1>5
  <2>4. job'[<<v, j, "train">>] # "none" \/ job'[<<v, j, "evaluate">>] # "none" =>
           /\ v \in Branch!Rows /\ j \in Branch!Sessions(v)
           /\ \A i \in workflows[v].first .. (j - 1) : Branch!SessionDone(v, i)
    <3>1. CASE v = w /\ j = k
      BY <2>3, <3>1
    <3>2. CASE ~(v = w /\ j = k)
      <4>1. <<v, j, "train">> # s /\ <<v, j, "evaluate">> # s
        BY <1>6, <3>2
      <4> QED
        BY <2>1, <2>2, <4>1 DEF StageOK
    <3> QED
      BY <3>1, <3>2
  <2>5. job'[<<v, j, "train">>] # "none" \/ job'[<<v, j, "evaluate">>] # "none" =>
           /\ v \in Branch!Rows' /\ j \in Branch!Sessions(v)'
           /\ \A i \in workflows'[v].first .. (j - 1) : Branch!SessionDone(v, i)'
    <3> SUFFICES ASSUME job'[<<v, j, "train">>] # "none" \/ job'[<<v, j, "evaluate">>] # "none"
                 PROVE  /\ v \in Branch!Rows' /\ j \in Branch!Sessions(v)'
                        /\ \A i \in workflows'[v].first .. (j - 1) : Branch!SessionDone(v, i)'
      OBVIOUS
    <3>1. /\ v \in Branch!Rows /\ j \in Branch!Sessions(v)
          /\ \A i \in workflows[v].first .. (j - 1) : Branch!SessionDone(v, i)
      BY <2>4
    <3>2. \A i \in workflows[v].first .. (j - 1) : i \in Branch!Sessions(v)
      BY <1>0, <3>1, SessionsOf
    <3>3. \A i \in workflows[v].first .. (j - 1) : Branch!SessionDone(v, i)'
      BY <1>0, <1>11, <1>12, <3>1, <3>2, DoneStays
    <3> QED
      BY <1>3, <1>12, <3>1, <3>3, SameSessions
  <2>6. job'[<<v, j, "evaluate">>] # "none" => Branch!Trained(v, j)' /\ j \in workflows'[v].chosen
    <3>1. CASE <<v, j, "evaluate">> = s
      <4>1. v = w /\ j = k /\ Branch!Trained(w, k)
        BY <1>6, <3>1
      <4> QED
        BY <1>0, <1>3, <1>5, <1>11, <1>12, <4>1, DoneStays DEF Branch!SessionDone
    <3>2. CASE <<v, j, "evaluate">> # s
      <4>1. job'[<<v, j, "evaluate">>] # "none" =>
              Branch!Trained(v, j) /\ j \in workflows[v].chosen /\ v \in Branch!Rows /\ j \in Branch!Sessions(v)
        BY <2>1, <2>2, <3>2 DEF StageOK
      <4> QED
        BY <1>0, <1>3, <1>11, <1>12, <4>1, DoneStays
    <3> QED
      BY <3>1, <3>2
  <2>7. job'[<<v, j, "train">>] \notin {"collapsed", "gap"}
    BY <2>1, <2>2 DEF StageOK
  <2>8. job'[<<v, j, "train">>] \notin {"none", "faulty"} => bound'[Branch!Id(v, j)] = <<v, j, "train">>
    <3>1. CASE <<v, j, "train">> = s
      <4>1. v = w /\ j = k /\ s[3] = "train" /\ s[2] = k
        BY <1>6, <3>1
      <4> QED
        BY <1>3, <1>8, <1>15, <3>1, <4>1
    <3>2. CASE <<v, j, "train">> # s
      <4> SUFFICES ASSUME job'[<<v, j, "train">>] \notin {"none", "faulty"}
                   PROVE  bound'[Branch!Id(v, j)] = <<v, j, "train">>
        OBVIOUS
      <4>1. bound[Branch!Id(v, j)] = <<v, j, "train">>
        BY <2>1, <2>2, <3>2 DEF StageOK
      <4>2. <<v, j, "train">> # Null
        BY <1>10 DEF BranchAssumption
      <4>3. s[3] = "train" => bound' = [bound EXCEPT ![Branch!Id(w, k)] = s] /\ Branch!Id(v, j) # Branch!Id(w, k)
        <5>1. s[3] = "train" => s[2] = k /\ bound[Branch!Id(w, k)] = Null
          BY <1>14
        <5> QED
          BY <1>3, <4>1, <4>2, <5>1
      <4> QED
        BY <1>3, <1>8, <4>1, <4>3
    <3> QED
      BY <3>1, <3>2
  <2>9. Branch!Id(v, j)' = Branch!Id(v, j)
    BY <1>3 DEF Branch!Id
  <2> QED
    BY <2>5, <2>6, <2>7, <2>8, <2>9 DEF StageOK
<1>17. ASSUME NEW v \in Branch!Rows PROVE StartOK(v)' /\ BlockedOK(v)'
  <2>0. retired \subseteq retired' /\ workflows' = workflows
    BY <1>3
  <2>1. StartOK(v)'
    BY <1>0, <1>11, <1>12, <2>0, StartStays
  <2>2. CASE v = w
    <3>1. workflows'[v].status = "active"
      BY <1>3, <2>0, <2>2 DEF Branch!Active
    <3>2. BlockedOK(v)'
      BY <3>1 DEF BlockedOK
    <3> QED
      BY <2>1, <3>2
  <2>3. CASE v # w
    <3>1. \A j \in Branch!Sessions(v) : job'[<<v, j, "train">>] = job[<<v, j, "train">>]
      <4>1. \A j \in Branch!Sessions(v) : <<v, j, "train">> \in Branch!Stage /\ <<v, j, "train">> # s
        BY <1>0, <1>6, <2>3, SessionsOf DEF Branch!Stage
      <4> QED
        BY <1>9, <4>1
    <3> QED
      <4>1. SameRow(v) /\ \A j \in Branch!Sessions(v) : job[<<v, j, "train">>] = "none" => job'[<<v, j, "train">>] = "none"
        BY <1>12, <3>1
      <4>2. workflows'[v].status = workflows[v].status /\ workflows'[v].why = workflows[v].why
        BY <2>0
      <4>3. BlockedOK(v)'
        BY <1>0, <1>11, <2>0, <4>1, <4>2, BlockedStays
      <4> QED
        BY <2>1, <4>3
  <2> QED
    BY <2>1, <2>2, <2>3
<1> QED
  BY <1>12, <1>13, <1>16, <1>17 DEF BranchInv, Branch!Row

(* The session of a restart moves to a job nobody has used.                *)
LEMMA RestartFlowStep ==
  ASSUME BranchInv, BranchAssumption, NEW w \in Branch!Rows, Branch!Restart(w) PROVE BranchInv'
<1>0. N \in Nat /\ MaxWorkflows \in Nat /\ BranchTyped
  BY DEF BranchAssumption, BranchInv
<1>1. PICK n : n = Len(workflows) + 1
  OBVIOUS
<1>2. PICK k : k = workflows[w].first
  OBVIOUS
<1>3. PICK r : r = [workflows[w] EXCEPT !.status = "active", !.why = ""]
  OBVIOUS
<1>4. PICK s : s = <<n, k, "train">>
  OBVIOUS
<1>5. /\ Branch!Room /\ ~workflows[w].copy /\ job[<<w, k, "train">>] = "faulty"
      /\ bound[Branch!Id(w, k)] = <<w, k, "train">>
      /\ workflows' = Append(workflows, r) /\ job' = [job EXCEPT ![s] = "queued"]
      /\ bound' = [bound EXCEPT ![Branch!Id(w, k)] = s]
      /\ UNCHANGED <<retired, asked>>
  BY <1>1, <1>2, <1>3, <1>4 DEF Branch!Restart
<1>6. workflows[w] \in FlowType
  BY <1>0, Typed DEF RowsTyped
<1>7. /\ r \in FlowType /\ r.status = "active" /\ r.material = workflows[w].material /\ r.copy = workflows[w].copy
      /\ r.first = workflows[w].first /\ r.last = workflows[w].last
      /\ r.chosen = workflows[w].chosen /\ r.start = workflows[w].start
  BY <1>3, <1>6 DEF FlowType
<1>8. /\ workflows' \in Seq(FlowType) /\ Len(workflows') = n /\ n <= MaxWorkflows
      /\ Branch!Rows = 1 .. (n - 1) /\ Branch!Rows' = 1 .. n /\ n \in Nat
      /\ workflows'[n] = r /\ \A v \in Branch!Rows : workflows'[v] = workflows[v]
  BY <1>0, <1>1, <1>5, <1>7 DEF BranchTyped, Branch!Rows, Branch!Room
<1>9. \A v \in Branch!Rows : SameRow(v)
  BY <1>8 DEF SameRow
<1>10. n \in Branch!Row /\ n \notin Branch!Rows /\ w # n /\ k \in 1 .. N /\ w \in Branch!Row
  BY <1>0, <1>2, <1>8, SessionsOf DEF Branch!Row
<1>11. /\ job \in [Branch!Stage -> Statuses] /\ bound \in [Branch!SessionId -> Branch!Stage \cup {Null}]
       /\ asked \in [Clients -> Materials \cup {Null}]
  BY <1>0 DEF BranchTyped
<1>12. \A v \in Branch!Row, j \in 1 .. N : <<v, j, "train">> \in Branch!Stage /\ <<v, j, "evaluate">> \in Branch!Stage
  BY DEF Branch!Stage
<1>13. s \in Branch!Stage /\ \A t \in Branch!Stage : job'[t] = IF t = s THEN "queued" ELSE job[t]
  BY <1>4, <1>5, <1>10, <1>11, <1>12
<1>14. \A j \in 1 .. N : job[<<n, j, "train">>] = "none" /\ job[<<n, j, "evaluate">>] = "none"
  BY <1>10 DEF BranchInv, StageOK
<1>15. SettledStay
  BY <1>4, <1>10, <1>13, <1>14 DEF SettledStay
<1>16. Branch!Id(w, k) = <<workflows[w].material, k, 0>> /\ Branch!Id(w, k) \in Branch!SessionId
  <2>1. Branch!Id(w, k) = <<workflows[w].material, k, 0>>
    BY <1>5 DEF Branch!Id
  <2>2. workflows[w].material \in Materials
    BY <1>6 DEF FlowType
  <2>3. 0 \in 0 .. MaxWorkflows
    BY <1>0
  <2> QED
    BY <1>10, <2>1, <2>2, <2>3 DEF Branch!SessionId
<1>17. BranchTyped'
  <2>1. job' \in [Branch!Stage -> Statuses]
    BY <1>5, <1>11, <1>13 DEF Statuses
  <2>2. bound' \in [Branch!SessionId -> Branch!Stage \cup {Null}]
    BY <1>5, <1>11, <1>13
  <2>3. asked' \in [Clients -> Materials \cup {Null}]
    BY <1>5, <1>11
  <2> QED
    BY <1>8, <2>1, <2>2, <2>3, TypedNext
<1>18. StageOK(n, k)'
  <2>1. /\ job'[<<n, k, "train">>] = "queued" /\ job'[<<n, k, "evaluate">>] = "none"
    BY <1>4, <1>10, <1>12, <1>13, <1>14
  <2>2. k \in Branch!Sessions(n)' /\ n \in Branch!Rows'
    <3>1. workflows'[n].first = k /\ workflows'[n].last = workflows[w].last
      BY <1>2, <1>7, <1>8
    <3>2. workflows[w].last \in Nat /\ k \in Nat /\ k <= workflows[w].last
      <4>1. workflows[w].last \in 1 .. N /\ workflows[w].first <= workflows[w].last
        BY <1>0, SessionsOf DEF BranchInv, StartOK
      <4> QED
        BY <1>2, <1>10, <4>1
    <3> QED
      BY <1>8, <3>1, <3>2 DEF Branch!Sessions
  <2>3. \A j \in workflows'[n].first .. (k - 1) : FALSE
    BY <1>2, <1>7, <1>8, <1>10
  <2>4. bound'[Branch!Id(n, k)'] = <<n, k, "train">>
    <3>1. Branch!Id(n, k)' = <<workflows[w].material, k, 0>>
      BY <1>5, <1>7, <1>8 DEF Branch!Id
    <3> QED
      BY <1>4, <1>5, <1>11, <1>16, <3>1
  <2> QED
    BY <2>1, <2>2, <2>3, <2>4 DEF StageOK
<1>19. ASSUME NEW j \in 1 .. N, j # k PROVE StageOK(n, j)'
  <2>1. job'[<<n, j, "train">>] = "none" /\ job'[<<n, j, "evaluate">>] = "none"
    BY <1>4, <1>10, <1>12, <1>13, <1>14, <1>19
  <2> QED
    BY <2>1 DEF StageOK
<1>20. ASSUME NEW v \in Branch!Row, v # n, NEW j \in 1 .. N PROVE StageOK(v, j)'
  <2>1. StageOK(v, j)
    BY DEF BranchInv
  <2>2. /\ job'[<<v, j, "train">>] = job[<<v, j, "train">>]
        /\ job'[<<v, j, "evaluate">>] = job[<<v, j, "evaluate">>]
    BY <1>4, <1>12, <1>13, <1>20
  <2>3. CASE job[<<v, j, "train">>] = "none" /\ job[<<v, j, "evaluate">>] = "none"
    BY <2>2, <2>3 DEF StageOK
  <2>4. CASE job[<<v, j, "train">>] # "none" \/ job[<<v, j, "evaluate">>] # "none"
    <3>1. /\ v \in Branch!Rows /\ j \in Branch!Sessions(v)
          /\ \A i \in workflows[v].first .. (j - 1) : Branch!SessionDone(v, i)
      BY <2>1, <2>4 DEF StageOK
    <3>2. SameRow(v) /\ Branch!Sessions(v)' = Branch!Sessions(v) /\ Branch!Id(v, j)' = Branch!Id(v, j)
      BY <1>9, <3>1, SameSessions
    <3>3. \A i \in workflows[v].first .. (j - 1) : i \in Branch!Sessions(v)
      BY <1>0, <3>1, SessionsOf
    <3>4. \A i \in workflows[v].first .. (j - 1) : Branch!SessionDone(v, i)'
      BY <1>0, <1>15, <3>1, <3>2, <3>3, DoneStays
    <3>5. Branch!Trained(v, j) => Branch!Trained(v, j)'
      BY <1>0, <1>15, <3>1, <3>2, DoneStays
    <3>6. job[<<v, j, "train">>] \notin {"none", "faulty"} => bound'[Branch!Id(v, j)] = <<v, j, "train">>
      <4> SUFFICES ASSUME job[<<v, j, "train">>] \notin {"none", "faulty"}
                   PROVE  bound'[Branch!Id(v, j)] = <<v, j, "train">>
        OBVIOUS
      <4>1. bound[Branch!Id(v, j)] = <<v, j, "train">>
        BY <2>1 DEF StageOK
      <4>2. <<v, j, "train">> # <<w, k, "train">>
        BY <1>5
      <4>3. Branch!Id(v, j) # Branch!Id(w, k)
        BY <1>5, <4>1, <4>2
      <4> QED
        BY <1>5, <1>11, <4>1, <4>3
    <3>7. v \in Branch!Rows' /\ workflows'[v].first = workflows[v].first /\ workflows'[v].chosen = workflows[v].chosen
      BY <3>2 DEF SameRow
    <3> QED
      BY <2>1, <2>2, <3>1, <3>2, <3>4, <3>5, <3>6, <3>7 DEF StageOK
  <2> QED
    BY <2>3, <2>4
<1>21. ASSUME NEW v \in Branch!Rows PROVE StartOK(v)' /\ BlockedOK(v)'
  <2>0. retired \subseteq retired'
    BY <1>5
  <2>1. StartOK(v)'
    BY <1>0, <1>9, <1>15, <2>0, StartStays
  <2>2. \A j \in Branch!Sessions(v) : job[<<v, j, "train">>] = "none" => job'[<<v, j, "train">>] = "none"
    <3>1. \A j \in Branch!Sessions(v) : <<v, j, "train">> \in Branch!Stage /\ <<v, j, "train">> # s
      BY <1>0, <1>4, <1>10, SessionsOf DEF Branch!Stage
    <3> QED
      BY <1>13, <3>1
  <2>3. SameRow(v) /\ workflows'[v].status = workflows[v].status /\ workflows'[v].why = workflows[v].why
    BY <1>8, <1>9
  <2>4. BlockedOK(v)'
    BY <1>0, <1>15, <2>0, <2>2, <2>3, BlockedStays
  <2> QED
    BY <2>1, <2>4
<1>22. StartOK(n)' /\ BlockedOK(n)'
  <2>1. BlockedOK(n)'
    <3>1. workflows'[n].status = "active"
      BY <1>7, <1>8
    <3> QED
      BY <3>1 DEF BlockedOK
  <2>2. /\ workflows'[n].material = workflows'[w].material /\ workflows'[n].copy = workflows'[w].copy
        /\ workflows'[n].first = workflows'[w].first /\ workflows'[n].last = workflows'[w].last
        /\ workflows'[n].chosen = workflows'[w].chosen /\ workflows'[n].start = workflows'[w].start
    BY <1>7, <1>8
  <2>3. StartOK(w)'
    BY <1>21
  <2>4. StartOK(n)'
    BY <2>2, <2>3 DEF StartOK
  <2> QED
    BY <2>1, <2>4
<1>23. \A v \in Branch!Rows' : StartOK(v)' /\ BlockedOK(v)'
  BY <1>8, <1>21, <1>22
<1>24. \A v \in Branch!Row, j \in 1 .. N : StageOK(v, j)'
  BY <1>18, <1>19, <1>20
<1> QED
  BY <1>17, <1>23, <1>24 DEF BranchInv, Branch!Row

LEMMA BranchInitial ==
  ASSUME Branch!Init, BranchAssumption PROVE BranchInv
<1>1. /\ workflows = <<>> /\ job = [s \in Branch!Stage |-> "none"] /\ bound = [i \in Branch!SessionId |-> Null]
      /\ asked = [c \in Clients |-> Null]
  BY DEF Branch!Init
<1>2. BranchTyped
  <2>1. workflows \in Seq(FlowType) /\ Len(workflows) <= MaxWorkflows
    BY <1>1 DEF BranchAssumption
  <2> QED
    BY <1>1, <2>1 DEF BranchTyped, Statuses
<1>3. Branch!Rows = {}
  BY <1>1 DEF Branch!Rows
<1>4. \A w \in Branch!Row, k \in 1 .. N : job[<<w, k, "train">>] = "none" /\ job[<<w, k, "evaluate">>] = "none"
  BY <1>1 DEF Branch!Stage
<1> QED
  BY <1>2, <1>3, <1>4 DEF BranchInv, StageOK

LEMMA BranchInvariant ==
  ASSUME BranchAssumption PROVE Branch!Spec => []BranchInv
<1>1. Branch!Init => BranchInv
  BY BranchInitial
<1>2. BranchInv /\ [Branch!Next]_(Branch!vars) => BranchInv'
  <2> SUFFICES ASSUME BranchInv, [Branch!Next]_(Branch!vars) PROVE BranchInv'
    OBVIOUS
  <2>1. CASE Branch!Authorize
    BY <2>1, AuthorizeStep
  <2>2. ASSUME NEW w \in Branch!Rows,
               \/ Branch!Continue(w) \/ Branch!Reconstruct(w) \/ Branch!Restart(w)
               \/ Branch!BlockForRetiredParent(w) \/ Branch!CreateStage(w) \/ Branch!Block(w)
        PROVE  BranchInv'
    BY <2>2, ContinueStep, ReconstructStep, RestartFlowStep, RetiredParentStep, CreateStep, BlockStep
  <2>3. CASE \/ Branch!AskToAuthorize
             \/ \E w \in Branch!Rows : \/ Branch!RetryStage(w) \/ Branch!ReopenReconstruction(w)
                                       \/ Branch!Terminate(w) \/ Branch!Finish(w)
             \/ Branch!Lease \/ Branch!EndRun \/ Branch!Retire \/ Branch!SwitchPipeline \/ UNCHANGED Branch!vars
    BY <2>3, SimpleSteps
  <2> QED
    BY <2>1, <2>2, <2>3 DEF Branch!Next
<1> QED
  BY <1>1, <1>2, PTL DEF Branch!Spec

(* TrainedInOrder: the sessions of a material are trained in order, each   *)
(* once, each from the checkpoint of the one before it, across workflows   *)
(* that are repaired, restarted, continued and reconstructed (store.py,    *)
(* cortex_workflow.py).                                                    *)
THEOREM TrainedCorrect ==
  ASSUME N \in Nat \ {0}, MaxWorkflows \in Nat, Null \notin Branch!Stage
  PROVE  Branch!Spec => []Branch!TrainedInOrder
<1>0. BranchAssumption
  BY DEF BranchAssumption
<1>1. BranchInv => Branch!TrainedInOrder
  <2> SUFFICES ASSUME BranchInv PROVE Branch!TrainedInOrder
    OBVIOUS
  <2>0. N \in Nat /\ MaxWorkflows \in Nat /\ BranchTyped
    BY <1>0 DEF BranchAssumption, BranchInv
  <2>1. ASSUME NEW w \in Branch!Rows, NEW k \in Branch!Sessions(w), Branch!Trained(w, k),
               NEW p, p = Branch!Parent(w, k)
        PROVE  IF k = 1 THEN p = Branch!Base
               ELSE /\ p[2] = k - 1 /\ Branch!Trained(p[1], p[2])
                    /\ workflows[p[1]].material = workflows[w].material
    <3>1. /\ k \in 1 .. N /\ w \in Branch!Row /\ workflows[w].first \in 1 .. N
          /\ Branch!Sessions(w) = workflows[w].first .. workflows[w].last
      BY <2>0, SessionsOf
    <3>2. StageOK(w, k) /\ StartOK(w)
      BY <3>1 DEF BranchInv
    <3>3. CASE k = workflows[w].first
      <4>1. p = workflows[w].start
        BY <2>1, <3>3 DEF Branch!Parent
      <4> QED
        BY <3>2, <3>3, <4>1 DEF StartOK
    <3>4. CASE k # workflows[w].first
      <4>1. p = <<w, k - 1>>
        BY <2>1, <3>4 DEF Branch!Parent
      <4>2. k # 1 /\ k - 1 \in workflows[w].first .. (k - 1)
        BY <3>1, <3>4
      <4>3. Branch!Trained(w, k - 1)
        BY <2>1, <3>2, <4>2 DEF StageOK, Branch!Trained, Branch!SessionDone
      <4> QED
        BY <4>1, <4>2, <4>3
    <3> QED
      BY <3>3, <3>4
  <2>2. ASSUME NEW w \in Branch!Rows, NEW k \in Branch!Sessions(w), Branch!Trained(w, k), ~workflows[w].copy,
               NEW v \in Branch!Rows \ {w}, ~workflows[v].copy, Branch!Trained(v, k)
        PROVE  workflows[v].material # workflows[w].material
    <3>1. k \in 1 .. N /\ w \in Branch!Row /\ v \in Branch!Row
      BY <2>0, SessionsOf
    <3>2. StageOK(w, k) /\ StageOK(v, k)
      BY <3>1 DEF BranchInv
    <3>3. bound[Branch!Id(w, k)] = <<w, k, "train">> /\ bound[Branch!Id(v, k)] = <<v, k, "train">>
      BY <2>2, <3>2 DEF StageOK, Branch!Trained
    <3> QED
      BY <2>2, <3>3 DEF Branch!Id
  <2> QED
    BY <2>1, <2>2 DEF Branch!TrainedInOrder
<1> QED
  BY <1>0, <1>1, BranchInvariant, PTL

(* SkippedOnlyForRetired: a branch is taught behind a session that was not *)
(* evaluated only when retention has deleted the parent it would be        *)
(* compared with (continue_cortex_workflow_after_retention_evaluation_gap).*)
THEOREM SkippedCorrect ==
  ASSUME N \in Nat \ {0}, MaxWorkflows \in Nat, Null \notin Branch!Stage
  PROVE  Branch!Spec => []Branch!SkippedOnlyForRetired
<1>0. BranchAssumption
  BY DEF BranchAssumption
<1>1. BranchInv => Branch!SkippedOnlyForRetired
  <2> SUFFICES ASSUME BranchInv, NEW w \in Branch!Rows, NEW k \in Branch!Sessions(w), Branch!Trained(w, k),
                      ~workflows[w].copy, k > 1, NEW p, p = Branch!Parent(w, k)
               PROVE  Branch!Evaluated(p[1], p[2]) \/ Branch!Parent(p[1], p[2]) \in retired
    BY DEF Branch!SkippedOnlyForRetired
  <2>1. /\ k \in 1 .. N /\ w \in Branch!Row /\ workflows[w].first \in 1 .. N /\ workflows[w].last \in 1 .. N
        /\ Branch!Sessions(w) = workflows[w].first .. workflows[w].last
    BY <1>0, SessionsOf DEF BranchAssumption, BranchInv
  <2>2. StageOK(w, k) /\ StartOK(w)
    BY <2>1 DEF BranchInv
  <2>3. CASE k = workflows[w].first
    <3>1. p = workflows[w].start /\ workflows[w].first # 1
      BY <2>1, <2>3 DEF Branch!Parent
    <3> QED
      BY <2>2, <3>1 DEF StartOK
  <2>4. CASE k # workflows[w].first
    <3>1. p = <<w, k - 1>>
      BY <2>4 DEF Branch!Parent
    <3>2. k - 1 \in workflows[w].first .. (k - 1) /\ k - 1 \in workflows[w].first .. workflows[w].last
      BY <2>1, <2>4
    <3>3. Branch!SessionDone(w, k - 1) /\ k - 1 \in workflows[w].chosen
      BY <2>2, <3>2 DEF StageOK, StartOK, Branch!Trained
    <3> QED
      BY <3>1, <3>3 DEF Branch!SessionDone
  <2> QED
    BY <2>3, <2>4
<1> QED
  BY <1>0, <1>1, BranchInvariant, PTL

-----------------------------------------------------------------------------
(* Candidates that are made one at a time, and the pack they enter.        *)

Vis == INSTANCE VisualWorkflow

(* Exact material has no more items than a pack: the plan stage refuses    *)
(* any other (handlers/visual.py), and nothing is begun before it.         *)
PlanOK ==
  /\ Items \in Nat /\ Seeds \in Nat \ {0} /\ Cohort \in Nat \ {0} /\ PackLimit \in Nat
  /\ Exact \in BOOLEAN /\ Shadow \in BOOLEAN
  /\ Exact => Items <= PackLimit

(* Division by the number of seeds, or of mates, keeps the order.          *)
LEMMA WholeQuotient == ASSUME NEW x \in Nat, NEW d \in Nat \ {0} PROVE x \div d \in Nat
OBVIOUS
LEMMA Remainder == ASSUME NEW x \in Nat, NEW d \in Nat \ {0} PROVE x % d \in 0..(d - 1)
OBVIOUS
LEMMA Division == ASSUME NEW x \in Nat, NEW d \in Nat \ {0} PROVE x = d * (x \div d) + (x % d)
OBVIOUS
LEMMA Multiples == ASSUME NEW d \in Nat, NEW q \in Nat, NEW r \in Nat, r < q PROVE d * r + d <= d * q
OBVIOUS
LEMMA Product == ASSUME NEW d \in Nat, NEW q \in Nat PROVE d * q \in Nat /\ d * q = q * d
OBVIOUS

LEMMA Quotient ==
  ASSUME NEW a \in Nat, NEW b \in Nat, NEW d \in Nat \ {0}, a <= b
  PROVE  a \div d <= b \div d
<1> DEFINE q == a \div d  r == b \div d  m == a % d  n == b % d
<1>1. q \in Nat /\ r \in Nat /\ m \in 0..(d - 1) /\ n \in 0..(d - 1)
  BY WholeQuotient, Remainder
<1>2. a = d * q + m /\ b = d * r + n
  BY Division
<1>3. r < q => d * r + d <= d * q
  BY <1>1, Multiples
<1>4. d * q \in Nat /\ d * r \in Nat
  BY <1>1, Product
<1> HIDE DEF q, r, m, n
<1>5. q <= r
  BY <1>1, <1>2, <1>3, <1>4
<1> QED
  BY <1>5 DEF q, r

LEMMA ItemOrder ==
  ASSUME PlanOK, NEW u \in Vis!Unit, NEW v \in Vis!Unit
  PROVE  /\ Vis!ItemOf(u) \in 1..Items
         /\ v <= u => Vis!ItemOf(v) <= Vis!ItemOf(u)
<1> DEFINE q == (u - 1) \div Seeds  m == (u - 1) % Seeds  r == (v - 1) \div Seeds
<1>0. Items * Seeds \in Nat /\ Items * Seeds = Seeds * Items
  BY Product DEF PlanOK
<1>1. u - 1 \in Nat /\ v - 1 \in Nat /\ u - 1 < Items * Seeds
  BY <1>0 DEF Vis!Unit
<1>2. q \in Nat /\ m \in 0..(Seeds - 1) /\ u - 1 = Seeds * q + m /\ r \in Nat
  BY <1>1, WholeQuotient, Remainder, Division DEF PlanOK
<1>3. v - 1 <= u - 1 => r <= q
  BY <1>1, Quotient DEF PlanOK
<1>4. q < Items
  <2>1. Items < q => Seeds * Items + Seeds <= Seeds * q
    BY <1>2, Multiples DEF PlanOK
  <2>2. Seeds * q \in Nat
    BY <1>2, Product DEF PlanOK
  <2> HIDE DEF q, m
  <2> QED
    BY <1>0, <1>1, <1>2, <2>1, <2>2 DEF PlanOK
<1>5. Vis!ItemOf(u) = q + 1 /\ Vis!ItemOf(v) = r + 1
  BY DEF Vis!ItemOf
<1>6. v <= u => v - 1 <= u - 1
  BY <1>0 DEF Vis!Unit
<1> HIDE DEF q, m, r
<1> QED
  BY <1>2, <1>3, <1>4, <1>5, <1>6 DEF PlanOK

LEMMA MatesAlike ==
  ASSUME PlanOK, NEW u \in Vis!Unit, NEW v \in Vis!Unit
  PROVE  /\ u \in Vis!Mates(u)
         /\ v \in Vis!Mates(u) => Vis!ItemOf(v) = Vis!ItemOf(u) /\ Vis!Mates(v) = Vis!Mates(u)
         /\ v \in Vis!Mates(u) <=> u \in Vis!Mates(v)
  BY DEF Vis!Mates

(* A cohort is a run of candidates.                                        *)
LEMMA MatesBetween ==
  ASSUME PlanOK, NEW u \in Vis!Unit, NEW v \in Vis!Unit, NEW x \in Vis!Unit,
         u < v, v < x, x \in Vis!Mates(u)
  PROVE  v \in Vis!Mates(u)
<1>1. Vis!ItemOf(v) = Vis!ItemOf(u) /\ Vis!ItemOf(x) = Vis!ItemOf(u)
  <2>1. Vis!ItemOf(u) \in 1..Items /\ Vis!ItemOf(v) \in 1..Items /\ Vis!ItemOf(x) \in 1..Items
    BY ItemOrder
  <2>2. Vis!ItemOf(u) <= Vis!ItemOf(v)
    BY ItemOrder DEF Vis!Unit, PlanOK
  <2>3. Vis!ItemOf(v) <= Vis!ItemOf(x)
    BY ItemOrder DEF Vis!Unit, PlanOK
  <2> QED
    BY <2>1, <2>2, <2>3 DEF Vis!Mates, PlanOK
<1> DEFINE q(y) == (y - 1) \div Seeds  m(y) == (y - 1) % Seeds
<1>0. Items * Seeds \in Nat
  BY Product DEF PlanOK
<1>2. ASSUME NEW y \in Vis!Unit PROVE q(y) \in Nat /\ m(y) \in Nat /\ y - 1 = Seeds * q(y) + m(y)
  <2>1. y - 1 \in Nat
    BY <1>0 DEF Vis!Unit
  <2>2. q(y) \in Nat
    BY <2>1, WholeQuotient DEF PlanOK
  <2>3. m(y) \in 0..(Seeds - 1)
    BY <2>1, Remainder DEF PlanOK
  <2>4. y - 1 = Seeds * q(y) + m(y)
    BY <2>1, Division DEF PlanOK
  <2> HIDE DEF q, m
  <2> QED
    BY <2>2, <2>3, <2>4 DEF PlanOK
<1>3. q(u) = q(v) /\ q(v) = q(x)
  <2>1. Vis!ItemOf(u) = q(u) + 1 /\ Vis!ItemOf(v) = q(v) + 1 /\ Vis!ItemOf(x) = q(x) + 1
    BY DEF Vis!ItemOf
  <2>2. q(u) \in Nat /\ q(v) \in Nat /\ q(x) \in Nat
    BY <1>2
  <2> HIDE DEF q
  <2> QED
    BY <1>1, <2>1, <2>2
<1>4. m(u) <= m(v) /\ m(v) <= m(x) /\ m(u) \in Nat /\ m(v) \in Nat /\ m(x) \in Nat
  <2> DEFINE p == Seeds * q(u)
  <2>1. p \in Nat
    BY <1>2, Product DEF PlanOK
  <2>2. u - 1 = p + m(u) /\ v - 1 = p + m(v) /\ x - 1 = p + m(x)
    BY <1>2, <1>3
  <2>3. m(u) \in Nat /\ m(v) \in Nat /\ m(x) \in Nat
    BY <1>2
  <2>4. u \in Nat /\ v \in Nat /\ x \in Nat
    BY <1>0 DEF Vis!Unit
  <2> HIDE DEF q, m, p
  <2> QED
    BY <2>1, <2>2, <2>3, <2>4
<1>5. m(u) \div Cohort <= m(v) \div Cohort /\ m(v) \div Cohort <= m(x) \div Cohort
      /\ m(u) \div Cohort \in Nat /\ m(v) \div Cohort \in Nat
  <2> HIDE DEF m
  <2>1. m(u) \div Cohort <= m(v) \div Cohort /\ m(u) \div Cohort \in Nat
    BY <1>4, Quotient, WholeQuotient DEF PlanOK
  <2>2. m(v) \div Cohort <= m(x) \div Cohort /\ m(v) \div Cohort \in Nat
    BY <1>4, Quotient, WholeQuotient DEF PlanOK
  <2> QED
    BY <2>1, <2>2
<1>6. m(x) \div Cohort = m(u) \div Cohort
  BY DEF Vis!Mates
<1>7. m(v) \div Cohort = m(u) \div Cohort
  <2> HIDE DEF m
  <2> QED
    BY <1>5, <1>6
<1> QED
  BY <1>1, <1>7 DEF Vis!Mates

LEMMA SameCardinality == \A S : Vis!Cardinality(S) = Cardinality(S)
BY DEF Vis!Cardinality, Cardinality

(* A candidate was begun, or the admission has come to its k-th stage.     *)
AcceptedBefore(w, jobs, i) == Cardinality({k \in Vis!AcceptedItems(w, jobs) : k < i})

Settled(w, jobs, v) ==
  \/ Vis!Reviewed(jobs, v)
  \/ Vis!ItemOf(v) \in Vis!AcceptedItems(w, jobs)
  \/ ~Exact /\ PackLimit <= AcceptedBefore(w, jobs, Vis!ItemOf(v))

Begun(w, jobs, u) ==
  /\ Vis!Visited(w, jobs, u)
  /\ \A v \in Vis!Mates(u) : v < u => Vis!Reviewed(jobs, v)

Admitted(w, jobs) ==
  /\ \A v \in Vis!Unit : Settled(w, jobs, v)
  /\ Exact => Vis!AcceptedItems(w, jobs) = 1..Items

LEMMA AcceptedBeforeTyped ==
  ASSUME PlanOK, NEW w, NEW jobs, NEW i \in Nat, NEW j \in Nat, i <= j
  PROVE  /\ AcceptedBefore(w, jobs, i) \in Nat /\ AcceptedBefore(w, jobs, j) \in Nat
         /\ AcceptedBefore(w, jobs, i) <= AcceptedBefore(w, jobs, j)
         /\ IsFiniteSet(Vis!AcceptedItems(w, jobs))
<1> DEFINE A == Vis!AcceptedItems(w, jobs)
           S == {k \in A : k < i}
           T == {k \in A : k < j}
<1>1. IsFiniteSet(1..Items)
  BY FS_Interval DEF PlanOK
<1>2. A \subseteq 1..Items
  BY DEF Vis!AcceptedItems
<1>3. S \subseteq A /\ T \subseteq A /\ S \subseteq T
  BY <1>2 DEF PlanOK
<1> HIDE DEF A
<1>4. IsFiniteSet(A) /\ IsFiniteSet(S) /\ IsFiniteSet(T)
  BY <1>1, <1>2, <1>3, FS_Subset
<1>5. Cardinality(S) \in Nat /\ Cardinality(T) \in Nat /\ Cardinality(S) <= Cardinality(T)
  <2> HIDE DEF S, T
  <2> QED
    BY <1>3, <1>4, FS_Subset, FS_CardinalityType
<1> QED
  BY <1>4, <1>5 DEF A, AcceptedBefore

(* What is done stays done, and a verdict comes with its review.           *)
Later(w, jobs, more) ==
  /\ \A t : Vis!Done(jobs, t) => Vis!Done(more, t)
  /\ usable \subseteq usable'
  /\ \A v \in Vis!Unit : <<w, v>> \in usable' /\ <<w, v>> \notin usable => ~Vis!Reviewed(jobs, v)

LEMMA AcceptedStay ==
  ASSUME PlanOK, NEW w, NEW jobs, NEW more, Later(w, jobs, more), NEW i
  PROVE  /\ Vis!Accepted(w, jobs, i) \subseteq Vis!Accepted(w, more, i)'
         /\ i \in Vis!AcceptedItems(w, jobs) => i \in Vis!AcceptedItems(w, more)'
<1>1. Vis!Accepted(w, jobs, i) \subseteq Vis!Accepted(w, more, i)'
  BY DEF Later, Vis!Accepted, Vis!Reviewed, Vis!Done, Vis!Unit, Vis!Mates, Vis!ItemOf
<1> QED
  BY <1>1 DEF Vis!AcceptedItems

(* An item whose candidates are reviewed stays as it was found.            *)
LEMMA RejectedStay ==
  ASSUME PlanOK, NEW w, NEW jobs, NEW more, Later(w, jobs, more), NEW i,
         \A v \in Vis!Unit : Vis!ItemOf(v) = i => Vis!Reviewed(jobs, v)
  PROVE  i \in Vis!AcceptedItems(w, more)' => i \in Vis!AcceptedItems(w, jobs)
<1>1. Vis!Accepted(w, more, i)' \subseteq Vis!Accepted(w, jobs, i)
  BY MatesAlike DEF Later, Vis!Accepted, Vis!Unit, Vis!Mates
<1> QED
  BY <1>1 DEF Vis!AcceptedItems

LEMMA VisitedStay ==
  ASSUME PlanOK, NEW w, NEW jobs, NEW more, Later(w, jobs, more), NEW u \in Vis!Unit,
         Vis!Visited(w, jobs, u)
  PROVE  Vis!Visited(w, more, u)'
<1> DEFINE i == Vis!ItemOf(u)
<1>1. ASSUME NEW v \in Vis!Unit, Vis!ItemOf(v) = i, v < u, v \notin Vis!Mates(u)
      PROVE  Vis!Reviewed(more, v) /\ <<w, v>> \notin usable'
  BY <1>1 DEF Vis!Visited, Later, Vis!Reviewed
<1>2. ASSUME NEW v \in Vis!Unit, Vis!ItemOf(v) < i, Vis!ItemOf(v) \notin Vis!AcceptedItems(w, more)'
      PROVE  ~Exact /\ Vis!Reviewed(more, v)
  <2>1. Vis!ItemOf(v) \notin Vis!AcceptedItems(w, jobs)
    BY <1>2, AcceptedStay
  <2> QED
    BY <2>1, <1>2 DEF Vis!Visited, Later, Vis!Reviewed
<1>3. {k \in Vis!AcceptedItems(w, more)' : k < i} = {k \in Vis!AcceptedItems(w, jobs) : k < i}
  <2>1. ASSUME NEW k, k < i, k \in Vis!AcceptedItems(w, more)', k \notin Vis!AcceptedItems(w, jobs) PROVE FALSE
    <3>1. \A v \in Vis!Unit : Vis!ItemOf(v) = k => Vis!Reviewed(jobs, v)
      BY <2>1 DEF Vis!Visited
    <3> QED
      BY <2>1, <3>1, RejectedStay
  <2>2. \A k : k \in Vis!AcceptedItems(w, jobs) => k \in Vis!AcceptedItems(w, more)'
    BY AcceptedStay
  <2> QED
    BY <2>1, <2>2
<1>4. Exact \/ Cardinality({k \in Vis!AcceptedItems(w, jobs) : k < i}) < PackLimit
  BY SameCardinality DEF Vis!Visited
<1> QED
  BY <1>1, <1>2, <1>3, <1>4, SameCardinality DEF Vis!Visited, Vis!Unit, Vis!Mates, Vis!ItemOf, Vis!Reviewed, Vis!Done

LEMMA BegunStay ==
  ASSUME PlanOK, NEW w, NEW jobs, NEW more, Later(w, jobs, more), NEW u \in Vis!Unit, Begun(w, jobs, u)
  PROVE  Begun(w, more, u)'
<1>1. Vis!Visited(w, more, u)'
  BY VisitedStay DEF Begun
<1>2. \A v \in Vis!Mates(u) : v < u => Vis!Reviewed(more, v)
  BY DEF Begun, Later, Vis!Reviewed
<1> QED
  BY <1>1, <1>2 DEF Begun, Vis!Mates, Vis!Unit, Vis!ItemOf, Vis!Reviewed, Vis!Done

LEMMA SettledStays ==
  ASSUME PlanOK, NEW w, NEW jobs, NEW more, Later(w, jobs, more), NEW v \in Vis!Unit, Settled(w, jobs, v)
  PROVE  Settled(w, more, v)'
<1>1. CASE Vis!Reviewed(jobs, v)
  BY <1>1 DEF Settled, Later, Vis!Reviewed, Vis!Done
<1>2. CASE Vis!ItemOf(v) \in Vis!AcceptedItems(w, jobs)
  BY <1>2, AcceptedStay DEF Settled, Vis!ItemOf
<1>3. CASE ~Exact /\ PackLimit <= AcceptedBefore(w, jobs, Vis!ItemOf(v))
  <2> DEFINE i == Vis!ItemOf(v)
             S == {k \in Vis!AcceptedItems(w, jobs) : k < i}
             T == {k \in Vis!AcceptedItems(w, more)' : k < i}
  <2>1. S \subseteq T
    BY AcceptedStay
  <2>2. T \subseteq 1..Items
    BY DEF Vis!AcceptedItems
  <2>3. IsFiniteSet(T)
    <3>1. IsFiniteSet(1..Items)
      BY FS_Interval DEF PlanOK
    <3> HIDE DEF T
    <3> QED
      BY <2>2, <3>1, FS_Subset
  <2>4. Cardinality(S) \in Nat /\ Cardinality(T) \in Nat /\ Cardinality(S) <= Cardinality(T)
    <3> HIDE DEF S, T
    <3> QED
      BY <2>1, <2>3, FS_Subset, FS_CardinalityType
  <2>5. PackLimit <= Cardinality(S)
    BY <1>3 DEF AcceptedBefore
  <2>6. PackLimit <= Cardinality(T)
    <3> HIDE DEF S, T
    <3> QED
      BY <2>4, <2>5 DEF PlanOK
  <2> QED
    BY <1>3, <2>6 DEF Settled, AcceptedBefore, Vis!ItemOf
<1> QED
  BY <1>1, <1>2, <1>3 DEF Settled

(* When the admission begins, the pack is settled: no verdict changes it.  *)
LEMMA AcceptedRest ==
  ASSUME PlanOK, NEW w, NEW jobs, NEW more, Later(w, jobs, more), Admitted(w, jobs), NEW i,
         \A u \in Vis!Unit : Vis!Reviewed(more, u) => Begun(w, more, u)'
  PROVE  Vis!Accepted(w, more, i)' = Vis!Accepted(w, jobs, i)
<1> SUFFICES ASSUME NEW x \in Vis!Accepted(w, more, i)' PROVE x \in Vis!Accepted(w, jobs, i)
  BY AcceptedStay
<1>1. x \in Vis!Unit /\ Vis!ItemOf(x) = i /\ <<w, x>> \in usable' /\ x \in Vis!Mates(x)
      /\ \A y \in Vis!Mates(x) : y \in Vis!Unit /\ Vis!Reviewed(more, y) /\ Vis!ItemOf(y) = i
  BY DEF Vis!Accepted, Vis!Mates, Vis!Unit, Vis!ItemOf, Vis!Reviewed, Vis!Done
<1>2. ASSUME NEW z \in Vis!Accepted(w, jobs, i) PROVE z \in Vis!Mates(x)
  <2>1. z \in Vis!Unit /\ Vis!ItemOf(z) = i /\ <<w, z>> \in usable' /\ Vis!Reviewed(more, z)
    BY MatesAlike DEF Vis!Accepted, Later, Vis!Reviewed
  <2>2. Begun(w, more, z)' /\ Begun(w, more, x)'
    BY <1>1, <2>1
  <2>3. z < x => z \in Vis!Mates(x)
    BY <1>1, <2>1, <2>2 DEF Begun, Vis!Visited, Vis!Unit, Vis!Mates, Vis!ItemOf
  <2>4. x < z => x \in Vis!Mates(z)
    BY <1>1, <2>1, <2>2 DEF Begun, Vis!Visited, Vis!Unit, Vis!Mates, Vis!ItemOf
  <2>5. x \in Int /\ z \in Int
    BY <1>1, <2>1, Product DEF Vis!Unit, PlanOK
  <2> QED
    BY <1>1, <2>1, <2>3, <2>4, <2>5, MatesAlike
<1>3. ASSUME NEW y \in Vis!Mates(x) PROVE Vis!Reviewed(jobs, y)
  <2>1. Settled(w, jobs, y)
    BY <1>1 DEF Admitted
  <2>2. CASE i \in Vis!AcceptedItems(w, jobs)
    <3>1. PICK z \in Vis!Accepted(w, jobs, i) : TRUE
      BY <2>2 DEF Vis!AcceptedItems
    <3>2. z \in Vis!Unit /\ y \in Vis!Mates(z)
      BY <1>1, <1>2, <3>1, MatesAlike DEF Vis!Accepted
    <3> QED
      BY <3>1, <3>2 DEF Vis!Accepted
  <2>3. ~(~Exact /\ PackLimit <= AcceptedBefore(w, jobs, i))
    <3> SUFFICES ASSUME ~Exact, PackLimit <= AcceptedBefore(w, jobs, i) PROVE FALSE
      OBVIOUS
    <3>1. Settled(w, more, y)'
      BY <1>1, <2>1, SettledStays
    <3>2. Vis!Visited(w, more, y)'
      BY <1>1 DEF Begun
    <3> DEFINE S == {k \in Vis!AcceptedItems(w, jobs) : k < i}
               T == {k \in Vis!AcceptedItems(w, more)' : k < i}
    <3>3. Cardinality(T) < PackLimit
      BY <1>1, <3>2, SameCardinality DEF Vis!Visited, Vis!ItemOf
    <3>4. S \subseteq T
      BY AcceptedStay
    <3>5. T \subseteq 1..Items
      BY DEF Vis!AcceptedItems
    <3>6. IsFiniteSet(T)
      <4>1. IsFiniteSet(1..Items)
        BY FS_Interval DEF PlanOK
      <4> HIDE DEF T
      <4> QED
        BY <3>5, <4>1, FS_Subset
    <3>7. Cardinality(S) \in Nat /\ Cardinality(T) \in Nat /\ Cardinality(S) <= Cardinality(T)
      <4> HIDE DEF S, T
      <4> QED
        BY <3>4, <3>6, FS_Subset, FS_CardinalityType
    <3>8. PackLimit <= Cardinality(S)
      BY DEF AcceptedBefore
    <3> HIDE DEF S, T
    <3> QED
      BY <3>3, <3>7, <3>8 DEF PlanOK
  <2> QED
    BY <1>1, <2>1, <2>2, <2>3 DEF Settled
<1>4. <<w, x>> \in usable
  BY <1>1, <1>3 DEF Later
<1> QED
  BY <1>1, <1>3, <1>4 DEF Vis!Accepted

LEMMA LeastIs ==
  ASSUME NEW S \in SUBSET Nat, S # {} PROVE Vis!Least(S) \in S /\ \A y \in S : Vis!Least(S) <= y
<1>1. \E x \in S : \A y \in S : x <= y
  BY LeastOf
<1> QED
  BY <1>1 DEF Vis!Least

LEMMA UnitsCount == ASSUME PlanOK PROVE Vis!Unit \subseteq Nat
BY Product DEF PlanOK, Vis!Unit

(* What is chosen is a candidate of its item.                              *)
LEMMA SelectedFrom ==
  ASSUME PlanOK, NEW w, NEW jobs
  PROVE  /\ \A i \in Vis!AcceptedItems(w, jobs) :
              /\ Vis!Least(Vis!Accepted(w, jobs, i)) \in Vis!Accepted(w, jobs, i)
              /\ \A u \in Vis!Accepted(w, jobs, i) : Vis!Least(Vis!Accepted(w, jobs, i)) <= u
         /\ IsFiniteSet(Vis!Selected(w, jobs)) /\ IsFiniteSet(Vis!AcceptedItems(w, jobs))
         /\ Cardinality(Vis!Selected(w, jobs)) \in Nat
         /\ Cardinality(Vis!Selected(w, jobs)) <= Cardinality(Vis!AcceptedItems(w, jobs))
<1>1. ASSUME NEW i \in Vis!AcceptedItems(w, jobs)
      PROVE  /\ Vis!Least(Vis!Accepted(w, jobs, i)) \in Vis!Accepted(w, jobs, i)
             /\ \A u \in Vis!Accepted(w, jobs, i) : Vis!Least(Vis!Accepted(w, jobs, i)) <= u
  <2> DEFINE S == Vis!Accepted(w, jobs, i)
  <2>1. S \in SUBSET Nat
    BY UnitsCount DEF Vis!Accepted
  <2>2. S # {}
    BY DEF Vis!AcceptedItems
  <2> HIDE DEF S
  <2>3. Vis!Least(S) \in S /\ \A u \in S : Vis!Least(S) <= u
    BY <2>1, <2>2, LeastIs
  <2> QED
    BY <2>3 DEF S
<1>2. IsFiniteSet(Vis!AcceptedItems(w, jobs))
  <2>1. 0 \in Nat /\ 0 <= 0
    OBVIOUS
  <2> QED
    BY <2>1, AcceptedBeforeTyped
<1> DEFINE A == Vis!AcceptedItems(w, jobs)
           f == [i \in A |-> Vis!Least(Vis!Accepted(w, jobs, i))]
           B == {f[i] : i \in A}
<1>3. B = Vis!Selected(w, jobs)
  BY DEF Vis!Selected
<1>4. IsFiniteSet(B) /\ Cardinality(B) <= Cardinality(A) /\ Cardinality(B) \in Nat
  <2>1. IsFiniteSet(A) /\ f \in [A -> {f[i] : i \in A}]
    BY <1>2
  <2>2. f \in Surjection(A, B)
    BY DEF Surjection
  <2> HIDE DEF f, A, B
  <2> QED
    BY <2>1, <2>2, FS_Surjection, FS_CardinalityType
<1> QED
  BY <1>1, <1>2, <1>3, <1>4

LEMMA AdmissionShape ==
  ASSUME PlanOK, NEW w, NEW jobs
  PROVE  \E n \in Nat :
           /\ DOMAIN Vis!Admission(w, jobs) = 1..n
           /\ \A k \in 1..n : \E a \in {"pack", "encode", "features", "experience"}, b \in Nat :
                  Vis!Admission(w, jobs)[k] = <<a, b>>
<1> DEFINE n == Cardinality(Vis!Selected(w, jobs))
           e == [k \in 1..n |-> <<"encode", k>>]
           T == {"pack", "encode", "features", "experience"} \X Nat
<1>1. n \in Nat
  BY SelectedFrom
<1>2. Vis!Admission(w, jobs) = <<Vis!Pack>> \o e \o << <<"features", 0>>, <<"experience", 0>> >>
  BY SameCardinality DEF Vis!Admission
<1> HIDE DEF n
<1>3. e \in Seq(T)
  BY <1>1
<1>4. <<Vis!Pack>> \in Seq(T) /\ << <<"features", 0>>, <<"experience", 0>> >> \in Seq(T)
  BY DEF Vis!Pack
<1> DEFINE A == Vis!Admission(w, jobs)
<1>5. A \in Seq(T)
  <2> HIDE DEF e, T
  <2> QED
    BY <1>2, <1>3, <1>4
<1>6. DOMAIN A = 1..Len(A) /\ Len(A) \in Nat /\ \A k \in 1..Len(A) : A[k] \in T
  <2> HIDE DEF e, T, A
  <2> QED
    BY <1>5
<1>7. \A k \in 1..Len(A) : \E a \in {"pack", "encode", "features", "experience"}, b \in Nat : A[k] = <<a, b>>
  <2> HIDE DEF e, A
  <2> QED
    BY <1>6
<1> QED
  BY <1>6, <1>7

(* The stages of a candidate, the review last.                             *)
LEMMA ChainShape ==
  /\ DOMAIN Vis!Chain = 1..Len(Vis!Chain) /\ Len(Vis!Chain) \in Nat \ {0}
  /\ Vis!Chain[1] = "generate" /\ Vis!Chain[Len(Vis!Chain)] = "review"
  /\ \A k \in DOMAIN Vis!Chain : Vis!Chain[k] \notin {"plan", "pack", "encode", "features", "experience"}
  /\ \A k \in DOMAIN Vis!Chain : Vis!Chain[k] = "review" => k = Len(Vis!Chain)
<1>1. CASE Captions = 2
  <2>1. Vis!Chain = <<"generate", "inspect", "caption", "recaption", "decide", "review">>
    BY <1>1 DEF Vis!Chain
  <2>2. Len(Vis!Chain) = 6 /\ DOMAIN Vis!Chain = 1..6
    BY <2>1
  <2>3. /\ Vis!Chain[1] = "generate" /\ Vis!Chain[2] = "inspect" /\ Vis!Chain[3] = "caption"
        /\ Vis!Chain[4] = "recaption" /\ Vis!Chain[5] = "decide" /\ Vis!Chain[6] = "review"
    BY <2>1
  <2>4. ASSUME NEW k \in 1..6 PROVE k = 1 \/ k = 2 \/ k = 3 \/ k = 4 \/ k = 5 \/ k = 6
    OBVIOUS
  <2> QED
    BY <2>2, <2>3, <2>4
<1>2. CASE Captions # 2
  <2>1. Vis!Chain = <<"generate", "inspect", "caption", "decide", "review">>
    BY <1>2 DEF Vis!Chain
  <2> QED
    BY <2>1
<1> QED
  BY <1>1, <1>2

(* A stage is begun when everything before it is done.                     *)
ChainStage(w, jobs, s) ==
  \E u \in Vis!Unit, k \in DOMAIN Vis!Chain :
     /\ s = <<Vis!Chain[k], u>>
     /\ Begun(w, jobs, u)
     /\ \A j \in 1..(k - 1) : Vis!Done(jobs, <<Vis!Chain[j], u>>)

AdmissionStage(w, jobs, s) ==
  \E k \in DOMAIN Vis!Admission(w, jobs) :
     /\ s = Vis!Admission(w, jobs)[k]
     /\ Admitted(w, jobs)
     /\ \A j \in 1..(k - 1) : Vis!Done(jobs, Vis!Admission(w, jobs)[j])

Ready(w, jobs, s) ==
  \/ s = Vis!Plan
  \/ Vis!Done(jobs, Vis!Plan) /\ (ChainStage(w, jobs, s) \/ AdmissionStage(w, jobs, s))

LEMMA ChainStageStay ==
  ASSUME PlanOK, NEW w, NEW jobs, NEW more, Later(w, jobs, more), NEW s, ChainStage(w, jobs, s)
  PROVE  ChainStage(w, more, s)'
<1>1. PICK u \in Vis!Unit, k \in DOMAIN Vis!Chain :
         /\ s = <<Vis!Chain[k], u>>
         /\ Begun(w, jobs, u)
         /\ \A j \in 1..(k - 1) : Vis!Done(jobs, <<Vis!Chain[j], u>>)
  BY DEF ChainStage
<1>2. Begun(w, more, u)'
  BY <1>1, BegunStay
<1>3. \A j \in 1..(k - 1) : Vis!Done(more, <<Vis!Chain[j], u>>)
  BY <1>1 DEF Later
<1> QED
  BY <1>1, <1>2, <1>3 DEF ChainStage, Vis!Unit, Vis!Chain, Vis!Done

LEMMA SelectedStay ==
  ASSUME PlanOK, NEW w, NEW jobs, NEW more, Later(w, jobs, more), Admitted(w, jobs),
         \A u \in Vis!Unit : Vis!Reviewed(more, u) => Begun(w, more, u)'
  PROVE  /\ Vis!AcceptedItems(w, more)' = Vis!AcceptedItems(w, jobs)
         /\ Vis!Selected(w, more)' = Vis!Selected(w, jobs)
         /\ Admitted(w, more)'
<1>1. \A i : Vis!Accepted(w, more, i)' = Vis!Accepted(w, jobs, i)
  BY AcceptedRest
<1>2. Vis!AcceptedItems(w, more)' = Vis!AcceptedItems(w, jobs)
  BY <1>1 DEF Vis!AcceptedItems
<1>3. Vis!Selected(w, more)' = Vis!Selected(w, jobs)
  BY <1>1, <1>2 DEF Vis!Selected, Vis!Least
<1>4. \A v \in Vis!Unit : Settled(w, more, v)'
  BY SettledStays DEF Admitted
<1> QED
  BY <1>2, <1>3, <1>4 DEF Admitted, Vis!Unit

LEMMA AdmissionStageStay ==
  ASSUME PlanOK, NEW w, NEW jobs, NEW more, Later(w, jobs, more), NEW s, AdmissionStage(w, jobs, s),
         \A u \in Vis!Unit : Vis!Reviewed(more, u) => Begun(w, more, u)'
  PROVE  AdmissionStage(w, more, s)'
<1>1. PICK k \in DOMAIN Vis!Admission(w, jobs) :
         /\ s = Vis!Admission(w, jobs)[k]
         /\ Admitted(w, jobs)
         /\ \A j \in 1..(k - 1) : Vis!Done(jobs, Vis!Admission(w, jobs)[j])
  BY DEF AdmissionStage
<1>2. Vis!Selected(w, more)' = Vis!Selected(w, jobs) /\ Admitted(w, more)'
  BY <1>1, SelectedStay
<1>3. Vis!Admission(w, more)' = Vis!Admission(w, jobs)
  BY <1>2 DEF Vis!Admission, Vis!Pack
<1>4. \A j \in 1..(k - 1) : Vis!Done(more, Vis!Admission(w, jobs)[j])
  BY <1>1 DEF Later
<1> QED
  BY <1>1, <1>2, <1>3, <1>4 DEF AdmissionStage, Vis!Done

(* A reviewed candidate was begun.                                         *)
LEMMA ReviewIsChain ==
  ASSUME PlanOK, NEW w, NEW jobs, NEW u, NEW a, Ready(w, jobs, <<a, u>>),
         a \notin {"plan", "pack", "encode", "features", "experience"}
  PROVE  Vis!Done(jobs, Vis!Plan) /\ ChainStage(w, jobs, <<a, u>>) /\ u \in Vis!Unit /\ Begun(w, jobs, u)
<1>1. <<a, u>> # Vis!Plan
  BY DEF Vis!Plan
<1>2. ~AdmissionStage(w, jobs, <<a, u>>)
  BY AdmissionShape DEF AdmissionStage
<1> QED
  BY <1>1, <1>2 DEF Ready, ChainStage

LEMMA RowStep ==
  ASSUME PlanOK, NEW w, NEW more,
         \A s \in DOMAIN more : \E jobs : Later(w, jobs, more) /\ Ready(w, jobs, s)
  PROVE  \A s \in DOMAIN more : Ready(w, more, s)'
<1>1. ASSUME NEW u \in Vis!Unit, Vis!Reviewed(more, u) PROVE Begun(w, more, u)'
  <2>1. <<"review", u>> \in DOMAIN more
    BY <1>1 DEF Vis!Reviewed, Vis!Done
  <2>2. PICK jobs : Later(w, jobs, more) /\ Ready(w, jobs, <<"review", u>>)
    BY <2>1
  <2>3. Begun(w, jobs, u)
    BY <2>2, ReviewIsChain
  <2> QED
    BY <2>2, <2>3, BegunStay
<1>2. ASSUME NEW s \in DOMAIN more PROVE Ready(w, more, s)'
  <2>1. PICK jobs : Later(w, jobs, more) /\ Ready(w, jobs, s)
    OBVIOUS
  <2>2. Vis!Done(jobs, Vis!Plan) => Vis!Done(more, Vis!Plan)
    BY <2>1 DEF Later
  <2>3. ChainStage(w, jobs, s) => ChainStage(w, more, s)'
    BY <2>1, ChainStageStay
  <2>4. AdmissionStage(w, jobs, s) => AdmissionStage(w, more, s)'
    BY <2>1, <1>1, AdmissionStageStay
  <2> QED
    BY <2>1, <2>2, <2>3, <2>4 DEF Ready, Vis!Plan, Vis!Done
<1> QED
  BY <1>2

(* What the coordinator does next is ready, in what it has read.           *)
LEMMA VisitedMates ==
  ASSUME PlanOK, NEW w, NEW jobs, NEW u \in Vis!Unit, NEW v \in Vis!Mates(u), v < u, Vis!Visited(w, jobs, u)
  PROVE  Vis!Visited(w, jobs, v)
<1>1. v \in Vis!Unit /\ Vis!ItemOf(v) = Vis!ItemOf(u) /\ Vis!Mates(v) = Vis!Mates(u)
  <2>1. v \in Vis!Unit
    BY DEF Vis!Mates
  <2> QED
    BY <2>1, MatesAlike
<1>2. \A y \in Vis!Unit : y < v => y < u
  BY <1>1, UnitsCount
<1> QED
  BY <1>1, <1>2 DEF Vis!Visited

LEMMA AllSettled ==
  ASSUME PlanOK, NEW w, NEW jobs, Vis!Open(w, jobs) = {}, ~Vis!Exhausted(w, jobs)
  PROVE  Admitted(w, jobs)
<1>1. Exact => Vis!AcceptedItems(w, jobs) = 1..Items
  BY DEF Vis!Exhausted
<1>2. CASE Exact
  BY <1>1, <1>2, ItemOrder DEF Admitted, Settled
<1>3. CASE ~Exact
  <2> DEFINE Bad == {v \in Vis!Unit : ~Settled(w, jobs, v)}
  <2>1. SUFFICES ASSUME Bad # {} PROVE FALSE
    BY <1>1 DEF Admitted
  <2>2. Bad \in SUBSET Nat
    BY UnitsCount
  <2>3. PICK v \in Bad : \A y \in Bad : v <= y
    BY <2>1, <2>2, LeastOf
  <2> DEFINE i == Vis!ItemOf(v)
  <2>4. /\ v \in Vis!Unit /\ ~Vis!Reviewed(jobs, v) /\ i \notin Vis!AcceptedItems(w, jobs)
        /\ ~(PackLimit <= AcceptedBefore(w, jobs, i)) /\ i \in 1..Items
    BY <1>3, <2>3, ItemOrder DEF Settled
  <2>5. \A y \in Vis!Unit : y < v => Settled(w, jobs, y)
    BY <2>3, <2>4, UnitsCount
  <2>6. ASSUME NEW y \in Vis!Unit, Vis!ItemOf(y) = i, y < v PROVE Vis!Reviewed(jobs, y)
    BY <1>3, <2>4, <2>5, <2>6 DEF Settled
  <2>7. ASSUME NEW y \in Vis!Unit, Vis!ItemOf(y) = i, y < v, y \notin Vis!Mates(v) PROVE <<w, y>> \notin usable
    <3>1. ASSUME NEW z \in Vis!Mates(y) PROVE Vis!Reviewed(jobs, z)
      <4>1. z \in Vis!Unit /\ Vis!ItemOf(z) = i
        BY <2>7 DEF Vis!Mates
      <4>2. ~(v < z)
        BY <2>4, <2>7, <3>1, <4>1, MatesBetween, MatesAlike
      <4>3. z # v
        BY <2>4, <2>7, <3>1, MatesAlike
      <4>4. z < v
        BY <2>4, <4>1, <4>2, <4>3, UnitsCount
      <4> QED
        BY <2>6, <4>1, <4>4
    <3>2. <<w, y>> \in usable => y \in Vis!Accepted(w, jobs, i)
      BY <2>7, <3>1 DEF Vis!Accepted
    <3> QED
      BY <2>4, <3>2 DEF Vis!AcceptedItems
  <2>8. ASSUME NEW y \in Vis!Unit, Vis!ItemOf(y) < i, Vis!ItemOf(y) \notin Vis!AcceptedItems(w, jobs)
        PROVE  Vis!Reviewed(jobs, y)
    <3>1. y < v
      <4>1. v <= y => i <= Vis!ItemOf(y)
        BY <2>4, ItemOrder
      <4>2. Vis!ItemOf(y) \in 1..Items
        BY ItemOrder
      <4> QED
        BY <2>4, <2>8, <4>1, <4>2, UnitsCount
    <3>2. Vis!ItemOf(y) \in Nat /\ i \in Nat /\ Vis!ItemOf(y) <= i
      BY <2>4, <2>8, ItemOrder
    <3>3. /\ AcceptedBefore(w, jobs, Vis!ItemOf(y)) \in Nat /\ AcceptedBefore(w, jobs, i) \in Nat
          /\ AcceptedBefore(w, jobs, Vis!ItemOf(y)) <= AcceptedBefore(w, jobs, i)
      BY <3>2, AcceptedBeforeTyped
    <3>4. ~(PackLimit <= AcceptedBefore(w, jobs, Vis!ItemOf(y)))
      BY <2>4, <3>3 DEF PlanOK
    <3> QED
      BY <2>5, <2>8, <3>1, <3>4 DEF Settled
  <2>9. Vis!Cardinality({k \in Vis!AcceptedItems(w, jobs) : k < i}) < PackLimit
    <3>1. i \in Nat /\ i <= i
      BY <2>4
    <3>2. AcceptedBefore(w, jobs, i) \in Nat
      BY <3>1, AcceptedBeforeTyped
    <3>3. AcceptedBefore(w, jobs, i) < PackLimit
      BY <2>4, <3>2 DEF PlanOK
    <3> QED
      BY <3>3, SameCardinality DEF AcceptedBefore
  <2>10. Vis!Visited(w, jobs, v)
    BY <1>3, <2>6, <2>7, <2>8, <2>9 DEF Vis!Visited
  <2> QED
    BY <2>4, <2>10 DEF Vis!Open
<1> QED
  BY <1>2, <1>3 DEF PlanOK

LEMMA NextReady ==
  ASSUME PlanOK, NEW w, NEW jobs, Vis!Left(jobs, Vis!Remaining(w, jobs)) # {}
  PROVE  LET s == Vis!Remaining(w, jobs)[Vis!Least(Vis!Left(jobs, Vis!Remaining(w, jobs)))]
         IN Ready(w, jobs, s) /\ (s = Vis!Pack => Admitted(w, jobs))
<1> DEFINE todo == Vis!Remaining(w, jobs)
           left == Vis!Left(jobs, todo)
           k == Vis!Least(left)
<1>1. ASSUME DOMAIN todo \subseteq Nat
      PROVE  k \in DOMAIN todo /\ \A j \in DOMAIN todo : j < k => Vis!Done(jobs, todo[j])
  <2>1. left \in SUBSET Nat /\ left # {}
    BY <1>1 DEF Vis!Left
  <2> HIDE DEF left, todo
  <2>2. k \in left /\ \A j \in left : k <= j
    BY <2>1, LeastIs
  <2> HIDE DEF k
  <2>3. k \in DOMAIN todo /\ \A j \in DOMAIN todo : j \notin left => Vis!Done(jobs, todo[j])
    BY <2>2 DEF left, Vis!Left
  <2> QED
    BY <1>1, <2>2, <2>3
<1>2. CASE ~Vis!Done(jobs, Vis!Plan)
  <2>1. todo = <<Vis!Plan>>
    BY <1>2 DEF Vis!Remaining
  <2>2. k = 1 /\ todo[1] = Vis!Plan
    <3>1. DOMAIN todo = {1} /\ todo[1] = Vis!Plan
      BY <2>1
    <3> HIDE DEF todo, k
    <3> QED
      BY <1>1, <3>1
  <2> QED
    BY <2>2 DEF Ready, Vis!Plan, Vis!Pack
<1>3. CASE Vis!Done(jobs, Vis!Plan) /\ Vis!Open(w, jobs) # {}
  <2> DEFINE u == Vis!Least(Vis!Open(w, jobs))
  <2>1. todo = [j \in DOMAIN Vis!Chain |-> <<Vis!Chain[j], u>>]
    BY <1>3 DEF Vis!Remaining
  <2>2. Vis!Open(w, jobs) \in SUBSET Nat
    BY UnitsCount DEF Vis!Open
  <2>3. u \in Vis!Open(w, jobs) /\ \A v \in Vis!Open(w, jobs) : u <= v
    BY <1>3, <2>2, LeastIs
  <2>4. Begun(w, jobs, u)
    <3> HIDE DEF u
    <3>1. u \in Vis!Unit /\ Vis!Visited(w, jobs, u)
      BY <2>3 DEF Vis!Open
    <3>2. ASSUME NEW v \in Vis!Mates(u), v < u PROVE Vis!Reviewed(jobs, v)
      <4>1. Vis!Visited(w, jobs, v) /\ v \in Vis!Unit
        BY <3>1, <3>2, VisitedMates DEF Vis!Mates
      <4>2. v \notin Vis!Open(w, jobs)
        BY <2>2, <2>3, <3>2
      <4> QED
        BY <4>1, <4>2 DEF Vis!Open
    <3> QED
      BY <3>1, <3>2 DEF Begun
  <2>5. DOMAIN todo = DOMAIN Vis!Chain /\ DOMAIN todo = 1..Len(Vis!Chain) /\ Len(Vis!Chain) \in Nat
    BY <2>1, ChainShape
  <2>6. k \in DOMAIN Vis!Chain /\ \A j \in 1..(k - 1) : j \in DOMAIN Vis!Chain /\ Vis!Done(jobs, todo[j])
    <3> HIDE DEF todo, k
    <3>1. k \in DOMAIN todo /\ \A j \in DOMAIN todo : j < k => Vis!Done(jobs, todo[j])
      BY <1>1, <2>5
    <3> QED
      BY <2>5, <3>1
  <2>7. todo[k] = <<Vis!Chain[k], u>> /\ \A j \in 1..(k - 1) : Vis!Done(jobs, <<Vis!Chain[j], u>>)
    <3> HIDE DEF k, u
    <3> QED
      BY <2>1, <2>6
  <2>8. u \in Vis!Unit
    BY <2>3 DEF Vis!Open
  <2>9. todo[k] # Vis!Pack
    <3> HIDE DEF todo, k, u
    <3> QED
      BY <2>6, <2>7, ChainShape DEF Vis!Pack
  <2>10. ChainStage(w, jobs, todo[k])
    <3> HIDE DEF todo, k, u
    <3> QED
      BY <2>4, <2>6, <2>7, <2>8 DEF ChainStage
  <2> QED
    BY <1>3, <2>9, <2>10 DEF Ready
<1>4. CASE Vis!Done(jobs, Vis!Plan) /\ Vis!Open(w, jobs) = {}
  <2>1. ~Vis!Exhausted(w, jobs) /\ ~Shadow
    <3> SUFFICES ASSUME Vis!Exhausted(w, jobs) \/ Shadow PROVE FALSE
      OBVIOUS
    <3>1. todo = << >>
      BY <1>4 DEF Vis!Remaining
    <3> QED
      BY <3>1 DEF Vis!Left
  <2>2. todo = Vis!Admission(w, jobs)
    BY <1>4, <2>1 DEF Vis!Remaining
  <2>3. Admitted(w, jobs)
    BY <1>4, <2>1, AllSettled
  <2>4. PICK n \in Nat : DOMAIN todo = 1..n
    BY <2>2, AdmissionShape
  <2>5. k \in DOMAIN todo /\ \A j \in 1..(k - 1) : Vis!Done(jobs, todo[j])
    <3> HIDE DEF todo, k
    <3>1. k \in DOMAIN todo /\ \A j \in DOMAIN todo : j < k => Vis!Done(jobs, todo[j])
      BY <1>1, <2>4
    <3> QED
      BY <2>4, <3>1
  <2>6. AdmissionStage(w, jobs, todo[k])
    <3> HIDE DEF k
    <3> QED
      BY <2>2, <2>3, <2>5 DEF AdmissionStage
  <2> QED
    BY <1>4, <2>3, <2>6 DEF Ready
<1> QED
  BY <1>2, <1>3, <1>4

-----------------------------------------------------------------------------
(* A verdict comes with its review, a coordinator has read what still      *)
(* holds, and every stage that was created was ready.                      *)
Flows == 1..Len(flow)

Endings == {"active", "failed", "succeeded", "shadow_complete"}
Reasons == {"", "job", "rejected"}
FlowRow == [status : Endings, why : Reasons, pack : SUBSET Vis!Unit, told : BOOLEAN, rejected : BOOLEAN]

VisTyped ==
  /\ flow \in Seq(FlowRow)
  /\ job = [w \in Flows |-> job[w]]
  /\ \A w \in Flows : job[w] = [s \in DOMAIN job[w] |-> job[w][s]]

HubTyped ==
  /\ hub = [c \in Coordinators |-> hub[c]]
  /\ \A c \in Coordinators :
        hub[c] = [pc |-> hub[c].pc, w |-> hub[c].w, jobs |-> hub[c].jobs, s |-> hub[c].s]

Verdicts ==
  /\ usable \subseteq Flows \X Vis!Unit
  /\ \A w \in Flows : \A u \in Vis!Unit : <<w, u>> \in usable => Vis!Reviewed(job[w], u)

Readings ==
  \A c \in Coordinators : hub[c].pc = "read" =>
     /\ hub[c].w \in Flows
     /\ \A s : Vis!Done(hub[c].jobs, s) => Vis!Done(job[hub[c].w], s)

Stages == \A w \in Flows : \A jobs : jobs = job[w] => \A s \in DOMAIN jobs : Ready(w, jobs, s)

Packs ==
  \A w \in Flows : \A jobs : jobs = job[w] /\ flow[w].pack # {} =>
     /\ Vis!Pack \in DOMAIN jobs
     /\ flow[w].pack = Vis!Selected(w, jobs)

VisInv == VisTyped /\ HubTyped /\ Verdicts /\ Readings /\ Stages /\ Packs

LEMMA PackAdmitted ==
  ASSUME PlanOK, NEW w, NEW jobs, Ready(w, jobs, Vis!Pack) PROVE Admitted(w, jobs)
<1>1. Vis!Pack # Vis!Plan
  BY DEF Vis!Pack, Vis!Plan
<1>2. ~ChainStage(w, jobs, Vis!Pack)
  BY ChainShape DEF ChainStage, Vis!Pack
<1> QED
  BY <1>1, <1>2 DEF Ready, AdmissionStage

(* What becomes of one workflow in a step.                                 *)
Grown(w) ==
  /\ Later(w, job[w], job'[w])
  /\ DOMAIN job[w] \subseteq DOMAIN job'[w]
  /\ \A s \in DOMAIN job'[w] : s \notin DOMAIN job[w] =>
        \E jobs : Later(w, jobs, job'[w]) /\ Ready(w, jobs, s)
  /\ \/ flow'[w].pack = flow[w].pack
     \/ /\ Vis!Pack \in DOMAIN job'[w]
        /\ \E jobs : Later(w, jobs, job'[w]) /\ Admitted(w, jobs) /\ flow'[w].pack = Vis!Selected(w, jobs)

LEMMA WorkflowStep ==
  ASSUME PlanOK, Stages, Packs, NEW w \in Flows, Grown(w), NEW m, m = job'[w]
  PROVE  /\ \A s \in DOMAIN m : Ready(w, m, s)'
         /\ flow'[w].pack # {} => Vis!Pack \in DOMAIN m /\ flow'[w].pack = Vis!Selected(w, m)'
<1>1. PICK j : j = job[w]
  OBVIOUS
<1>2. \A s \in DOMAIN m : \E jobs : Later(w, jobs, m) /\ Ready(w, jobs, s)
  BY <1>1 DEF Grown, Stages
<1>3. \A s \in DOMAIN m : Ready(w, m, s)'
  BY <1>2, RowStep
<1>4. ASSUME NEW u \in Vis!Unit, Vis!Reviewed(m, u) PROVE Begun(w, m, u)'
  <2>1. <<"review", u>> \in DOMAIN m
    BY <1>4 DEF Vis!Reviewed, Vis!Done
  <2>2. PICK jobs : Later(w, jobs, m) /\ Ready(w, jobs, <<"review", u>>)
    BY <1>2, <2>1
  <2>3. Begun(w, jobs, u)
    BY <2>2, ReviewIsChain
  <2> QED
    BY <2>2, <2>3, BegunStay
<1>5. ASSUME NEW jobs, Later(w, jobs, m), Admitted(w, jobs) PROVE Vis!Selected(w, m)' = Vis!Selected(w, jobs)
  BY <1>4, <1>5, SelectedStay
<1>6. CASE flow'[w].pack = flow[w].pack /\ flow[w].pack # {}
  <2>1. Vis!Pack \in DOMAIN j /\ flow[w].pack = Vis!Selected(w, j) /\ Ready(w, j, Vis!Pack)
    BY <1>1, <1>6 DEF Packs, Stages
  <2>2. Later(w, j, m) /\ Admitted(w, j) /\ Vis!Pack \in DOMAIN m
    BY <1>1, <2>1, PackAdmitted DEF Grown
  <2> QED
    BY <1>3, <1>5, <1>6, <2>1, <2>2
<1>7. CASE Vis!Pack \in DOMAIN m
           /\ \E jobs : Later(w, jobs, m) /\ Admitted(w, jobs) /\ flow'[w].pack = Vis!Selected(w, jobs)
  BY <1>3, <1>5, <1>7
<1>8. CASE flow'[w].pack = flow[w].pack /\ flow[w].pack = {}
  BY <1>3, <1>8
<1> QED
  BY <1>6, <1>7, <1>8 DEF Grown

LEMMA InvStep ==
  ASSUME PlanOK, VisInv, VisTyped', HubTyped', Verdicts', Readings', Flows \subseteq Flows',
         \A w \in Flows : Grown(w),
         \A w \in Flows' : w \notin Flows => DOMAIN job'[w] = {} /\ flow'[w].pack = {}
  PROVE  VisInv'
<1>1. ASSUME NEW w \in Flows', NEW m, m = job'[w]
      PROVE  /\ \A s \in DOMAIN m : Ready(w, m, s)'
             /\ flow'[w].pack # {} => Vis!Pack \in DOMAIN m /\ flow'[w].pack = Vis!Selected(w, m)'
  <2>1. CASE w \in Flows
    BY <1>1, <2>1, WorkflowStep DEF VisInv
  <2>2. CASE w \notin Flows
    BY <1>1, <2>2
  <2> QED
    BY <2>1, <2>2
<1>2. Stages'
  BY <1>1 DEF Stages
<1>3. Packs'
  BY <1>1 DEF Packs, Vis!Pack
<1> QED
  BY <1>2, <1>3 DEF VisInv

LEMMA QuietStep ==
  ASSUME PlanOK, VisInv, UNCHANGED <<job, usable>>, flow' \in Seq(FlowRow), Len(flow') = Len(flow),
         \A w \in Flows : flow'[w].pack = flow[w].pack, HubTyped', Readings'
  PROVE  VisInv'
<1>1. Flows' = Flows
  BY DEF Flows
<1>2. VisTyped'
  BY <1>1 DEF VisInv, VisTyped, FlowRow, Vis!Unit
<1>3. Verdicts'
  BY <1>1 DEF VisInv, Verdicts, Vis!Unit, Vis!Reviewed, Vis!Done
<1>4. ASSUME NEW w \in Flows PROVE Grown(w)
  BY DEF Grown, Later
<1> QED
  BY <1>1, <1>2, <1>3, <1>4, InvStep

(* A coordinator that has not just read keeps no reading.                  *)
LEMMA HubMoves ==
  ASSUME VisInv, NEW c \in Coordinators, NEW pc, NEW w, NEW jobs, NEW s,
         hub' = [hub EXCEPT ![c] = [pc |-> pc, w |-> w, jobs |-> jobs, s |-> s]],
         pc = "read" => w \in Flows' /\ \A t : Vis!Done(jobs, t) => Vis!Done(job'[w], t),
         Flows \subseteq Flows',
         \A v \in Flows : \A t : Vis!Done(job[v], t) => Vis!Done(job'[v], t)
  PROVE  HubTyped' /\ Readings'
<1>1. HubTyped'
  BY DEF VisInv, HubTyped
<1>2. ASSUME NEW x \in Coordinators, hub'[x].pc = "read"
      PROVE  hub'[x].w \in Flows' /\ \A t : Vis!Done(hub'[x].jobs, t) => Vis!Done(job'[hub'[x].w], t)
  <2>1. CASE x = c
    BY <1>2, <2>1 DEF VisInv, HubTyped
  <2>2. CASE x # c
    <3>1. hub'[x] = hub[x]
      BY <2>2 DEF VisInv, HubTyped
    <3> QED
      BY <1>2, <3>1 DEF VisInv, Readings
  <2> QED
    BY <2>1, <2>2
<1>3. Readings'
  BY <1>2 DEF Readings, Vis!Done
<1> QED
  BY <1>1, <1>3

LEMMA HubRests ==
  ASSUME VisInv, UNCHANGED hub, Flows \subseteq Flows',
         \A v \in Flows : \A t : Vis!Done(job[v], t) => Vis!Done(job'[v], t)
  PROVE  HubTyped' /\ Readings'
<1>1. HubTyped'
  BY DEF VisInv, HubTyped
<1>2. Readings'
  BY DEF VisInv, Readings, Vis!Done
<1> QED
  BY <1>1, <1>2

(* The record of a workflow is closed, told or opened again.               *)
LEMMA FlowMoves ==
  ASSUME VisInv, NEW w \in Flows, NEW row, row \in FlowRow, row.pack = flow[w].pack,
         flow' = [flow EXCEPT ![w] = row]
  PROVE  /\ flow' \in Seq(FlowRow) /\ Len(flow') = Len(flow)
         /\ \A v \in Flows : flow'[v].pack = flow[v].pack
<1>1. flow \in Seq(FlowRow) /\ w \in 1..Len(flow)
  BY DEF VisInv, VisTyped, Flows
<1> HIDE DEF FlowRow
<1>2. flow' \in Seq(FlowRow) /\ Len(flow') = Len(flow) /\ DOMAIN flow = 1..Len(flow)
  BY <1>1
<1> QED
  BY <1>1, <1>2 DEF Flows

LEMMA HubOnly ==
  ASSUME PlanOK, VisInv, UNCHANGED <<flow, job, usable>>, HubTyped', Readings' PROVE VisInv'
BY QuietStep DEF VisInv, VisTyped

LEMMA StandsStill ==
  ASSUME UNCHANGED <<flow, job>>
  PROVE  Flows' = Flows /\ \A v \in Flows : \A t : Vis!Done(job[v], t) => Vis!Done(job'[v], t)
BY DEF Flows

LEMMA WorkflowsAre == ASSUME VisInv PROVE Vis!Workflows = Flows
BY DEF VisInv, VisTyped, Flows, Vis!Workflows

(* The coordinator is somewhere else in its round.                         *)
LEMMA PlaceMoves ==
  ASSUME VisInv, NEW c \in Coordinators, NEW pc, NEW s, pc # "read",
         hub' = [hub EXCEPT ![c] = [pc |-> pc, w |-> hub[c].w, jobs |-> hub[c].jobs, s |-> s]],
         Flows' = Flows, \A v \in Flows : \A t : Vis!Done(job[v], t) => Vis!Done(job'[v], t)
  PROVE  HubTyped' /\ Readings'
BY HubMoves

LEMMA GoesIdle ==
  ASSUME PlanOK, VisInv, NEW c \in Coordinators, hub' = [hub EXCEPT ![c] = Vis!Idle],
         Flows \subseteq Flows', \A v \in Flows : \A t : Vis!Done(job[v], t) => Vis!Done(job'[v], t)
  PROVE  HubTyped' /\ Readings'
<1>1. Vis!Idle = [pc |-> "idle", w |-> 0, jobs |-> << >>, s |-> Null]
  BY DEF Vis!Idle
<1>2. PICK pc, w, jobs, s : pc = "idle" /\ w = 0 /\ jobs = << >> /\ s = Null
  OBVIOUS
<1>3. hub' = [hub EXCEPT ![c] = [pc |-> pc, w |-> w, jobs |-> jobs, s |-> s]] /\ pc # "read"
  BY <1>1, <1>2
<1> QED
  BY <1>3, HubMoves

LEMMA PcMoves ==
  ASSUME VisInv, NEW c \in Coordinators, NEW pc
  PROVE  /\ [hub EXCEPT ![c].pc = pc] =
              [hub EXCEPT ![c] = [pc |-> pc, w |-> hub[c].w, jobs |-> hub[c].jobs, s |-> hub[c].s]]
         /\ \A s : [hub EXCEPT ![c].pc = pc, ![c].s = s] =
              [hub EXCEPT ![c] = [pc |-> pc, w |-> hub[c].w, jobs |-> hub[c].jobs, s |-> s]]
<1> DEFINE r == hub[c]
<1>1. r = [pc |-> r.pc, w |-> r.w, jobs |-> r.jobs, s |-> r.s]
  BY DEF VisInv, HubTyped
<1>2. [r EXCEPT !.pc = pc] = [pc |-> pc, w |-> r.w, jobs |-> r.jobs, s |-> r.s]
  BY <1>1
<1>3. hub = [x \in Coordinators |-> hub[x]]
  BY DEF VisInv, HubTyped
<1>4. ASSUME NEW s PROVE [hub EXCEPT ![c].pc = pc, ![c].s = s] =
              [hub EXCEPT ![c] = [pc |-> pc, w |-> hub[c].w, jobs |-> hub[c].jobs, s |-> s]]
  <2> DEFINE h == [hub EXCEPT ![c].pc = pc]
  <2>1. h = [hub EXCEPT ![c] = [pc |-> pc, w |-> r.w, jobs |-> r.jobs, s |-> r.s]]
    BY <1>2
  <2>2. h[c] = [pc |-> pc, w |-> r.w, jobs |-> r.jobs, s |-> r.s] /\ DOMAIN h = Coordinators
        /\ h = [x \in Coordinators |-> h[x]] /\ \A x \in Coordinators : x # c => h[x] = hub[x]
    BY <1>3, <2>1
  <2>3. [h EXCEPT ![c].s = s] = [hub EXCEPT ![c] = [pc |-> pc, w |-> r.w, jobs |-> r.jobs, s |-> s]]
    <3>1. [h[c] EXCEPT !.s = s] = [pc |-> pc, w |-> r.w, jobs |-> r.jobs, s |-> s]
      <4> HIDE DEF h, r
      <4> QED
        BY <2>2
    <3>2. [h EXCEPT ![c].s = s] = [x \in Coordinators |-> IF x = c THEN [h[c] EXCEPT !.s = s] ELSE h[x]]
      <4> HIDE DEF h
      <4> QED
        BY <2>2
    <3>3. [hub EXCEPT ![c] = [pc |-> pc, w |-> r.w, jobs |-> r.jobs, s |-> s]] =
            [x \in Coordinators |-> IF x = c THEN [pc |-> pc, w |-> r.w, jobs |-> r.jobs, s |-> s] ELSE hub[x]]
      BY <1>3
    <3> HIDE DEF h, r
    <3> QED
      BY <2>2, <3>1, <3>2, <3>3
  <2> QED
    BY <2>3
<1> QED
  BY <1>2, <1>4

LEMMA ReadStep ==
  ASSUME PlanOK, VisInv, NEW c \in Coordinators, Vis!Read(c) PROVE VisInv'
<1>1. PICK w \in Vis!Workflows :
         /\ UNCHANGED <<flow, job, usable>>
         /\ hub' = [hub EXCEPT ![c] = [Vis!Idle EXCEPT !.pc = "read", !.w = w,
                      !.jobs = [s \in {t \in DOMAIN job[w] : <<w, t>> \in linked} |-> job[w][s]]]]
  BY DEF Vis!Read, Vis!Jobs
<1>2. PICK jobs : jobs = [s \in {t \in DOMAIN job[w] : <<w, t>> \in linked} |-> job[w][s]]
  OBVIOUS
<1>3. [Vis!Idle EXCEPT !.pc = "read", !.w = w, !.jobs = jobs] = [pc |-> "read", w |-> w, jobs |-> jobs, s |-> Null]
  <2>1. PICK e : e = << >>
    OBVIOUS
  <2>2. Vis!Idle = [pc |-> "idle", w |-> 0, jobs |-> e, s |-> Null]
    BY <2>1 DEF Vis!Idle
  <2> DEFINE a == [Vis!Idle EXCEPT !.pc = "read"]
             b == [a EXCEPT !.w = w]
  <2>3. a = [pc |-> "read", w |-> 0, jobs |-> e, s |-> Null]
    BY <2>2
  <2>4. b = [pc |-> "read", w |-> w, jobs |-> e, s |-> Null]
    <3> HIDE DEF a
    <3> QED
      BY <2>3
  <2>5. [b EXCEPT !.jobs = jobs] = [pc |-> "read", w |-> w, jobs |-> jobs, s |-> Null]
    <3> HIDE DEF b
    <3> QED
      BY <2>4
  <2> QED
    BY <2>5
<1>4. hub' = [hub EXCEPT ![c] = [pc |-> "read", w |-> w, jobs |-> jobs, s |-> Null]]
  BY <1>1, <1>2, <1>3
<1>5. \A t : Vis!Done(jobs, t) => Vis!Done(job[w], t)
  BY <1>2 DEF Vis!Done
<1>6. \A t : Vis!Done(jobs, t) => Vis!Done(job'[w], t)
  BY <1>1, <1>5 DEF Vis!Done
<1>7. PICK pc, s : pc = "read" /\ s = Null
  OBVIOUS
<1>8. hub' = [hub EXCEPT ![c] = [pc |-> pc, w |-> w, jobs |-> jobs, s |-> s]] /\ w \in Flows /\ Flows' = Flows
  BY <1>1, <1>4, <1>7, WorkflowsAre, StandsStill
<1>9. HubTyped' /\ Readings'
  BY <1>1, <1>6, <1>8, HubMoves, StandsStill
<1> QED
  BY <1>1, <1>9, HubOnly

LEMMA ClosedRow ==
  ASSUME VisInv, NEW w \in Flows, NEW new \in Endings, NEW why \in Reasons, NEW rejected \in BOOLEAN,
         Vis!Close(w, new, why, rejected)
  PROVE  /\ flow' \in Seq(FlowRow) /\ Len(flow') = Len(flow)
         /\ \A v \in Flows : flow'[v].pack = flow[v].pack
<1> DEFINE r == flow[w]
           st == IF r.status = "active" THEN new ELSE r.status
           y == IF new = "failed" THEN why ELSE r.why
           z == r.rejected \/ rejected
           row == [status |-> st, why |-> y, pack |-> r.pack, told |-> r.told, rejected |-> z]
<1>1. r \in FlowRow /\ flow \in Seq(FlowRow) /\ w \in 1..Len(flow)
  BY DEF VisInv, VisTyped, Flows
<1>2. row \in FlowRow /\ row.pack = r.pack
  BY <1>1 DEF FlowRow
<1>3. flow' = [flow EXCEPT ![w] = row]
  <2> DEFINE f1 == [flow EXCEPT ![w].status = st]
             f2 == [f1 EXCEPT ![w].why = y]
             f3 == [f2 EXCEPT ![w].rejected = z]
  <2>0. r = [status |-> r.status, why |-> r.why, pack |-> r.pack, told |-> r.told, rejected |-> r.rejected]
    BY <1>1 DEF FlowRow
  <2>00. flow = [v \in DOMAIN flow |-> flow[v]] /\ w \in DOMAIN flow
    BY <1>1
  <2> HIDE DEF row, FlowRow, st, y, z, r
  <2>1. f1 = [flow EXCEPT ![w] = [status |-> st, why |-> r.why, pack |-> r.pack, told |-> r.told,
                                  rejected |-> r.rejected]]
    <3>1. [flow[w] EXCEPT !.status = st] = [status |-> st, why |-> r.why, pack |-> r.pack, told |-> r.told,
                                  rejected |-> r.rejected]
      BY <2>0 DEF r
    <3> QED
      BY <3>1, <2>00
  <2>2. f2 = [flow EXCEPT ![w] = [status |-> st, why |-> y, pack |-> r.pack, told |-> r.told,
                                  rejected |-> r.rejected]]
    <3> HIDE DEF f1
    <3>1. f1[w] = [status |-> st, why |-> r.why, pack |-> r.pack, told |-> r.told, rejected |-> r.rejected]
          /\ DOMAIN f1 = DOMAIN flow /\ f1 = [v \in DOMAIN f1 |-> f1[v]] /\ \A v \in DOMAIN f1 : v # w => f1[v] = flow[v]
      BY <2>1, <2>00
    <3>2. [f1[w] EXCEPT !.why = y] =
            [status |-> st, why |-> y, pack |-> r.pack, told |-> r.told, rejected |-> r.rejected]
      BY <3>1
    <3> QED
      BY <3>1, <3>2, <2>00
  <2>3. f3 = [flow EXCEPT ![w] = row]
    <3> HIDE DEF f2
    <3>1. f2[w] = [status |-> st, why |-> y, pack |-> r.pack, told |-> r.told, rejected |-> r.rejected]
          /\ DOMAIN f2 = DOMAIN flow /\ f2 = [v \in DOMAIN f2 |-> f2[v]] /\ \A v \in DOMAIN f2 : v # w => f2[v] = flow[v]
      BY <2>2, <2>00
    <3>2. [f2[w] EXCEPT !.rejected = z] = row
      BY <3>1 DEF row
    <3> QED
      BY <3>1, <3>2, <2>00
  <2> QED
    BY <2>3 DEF Vis!Close, st, y, z, r
<1> HIDE DEF row, FlowRow
<1> QED
  BY <1>2, <1>3, FlowMoves

(* The next stage is created, and the pack with what was selected.         *)
LEMMA StageCreated ==
  ASSUME PlanOK, VisInv, NEW c \in Coordinators, hub[c].pc = "read", UNCHANGED usable,
         NEW w, NEW jobs, NEW s, w = hub[c].w, jobs = hub[c].jobs,
         Ready(w, jobs, s), s = Vis!Pack => Admitted(w, jobs), s \notin DOMAIN job[w],
         job' = [job EXCEPT ![w] = [t \in DOMAIN job[w] \cup {s} |-> IF t = s THEN "queued" ELSE job[w][t]]],
         flow' = [flow EXCEPT ![w].pack = IF s = Vis!Pack THEN Vis!Selected(w, jobs) ELSE flow[w].pack],
         hub' = [hub EXCEPT ![c].pc = "created", ![c].s = s]
  PROVE  VisInv'
<1>1. w \in Flows /\ \A t : Vis!Done(jobs, t) => Vis!Done(job[w], t)
  BY DEF VisInv, Readings
<1>2. flow \in Seq(FlowRow) /\ w \in 1..Len(flow) /\ w \in DOMAIN flow /\ flow[w] \in FlowRow
  BY <1>1 DEF VisInv, VisTyped, Flows
<1> DEFINE pack == IF s = Vis!Pack THEN Vis!Selected(w, jobs) ELSE flow[w].pack
           row == [flow[w] EXCEPT !.pack = pack]
<1>3. pack \in SUBSET Vis!Unit
  <2>1. Vis!Selected(w, jobs) \in SUBSET Vis!Unit
    <3>1. ASSUME NEW u \in Vis!Selected(w, jobs) PROVE u \in Vis!Unit
      <4>1. PICK i \in Vis!AcceptedItems(w, jobs) : u = Vis!Least(Vis!Accepted(w, jobs, i))
        BY DEF Vis!Selected
      <4>2. u \in Vis!Accepted(w, jobs, i)
        BY <4>1, SelectedFrom
      <4> QED
        BY <4>2 DEF Vis!Accepted
    <3> QED
      BY <3>1
  <2>2. flow[w].pack \in SUBSET Vis!Unit
    BY <1>2 DEF FlowRow
  <2> QED
    BY <2>1, <2>2
<1>4. row \in FlowRow /\ row.pack = pack
  <2> HIDE DEF pack
  <2> QED
    BY <1>2, <1>3 DEF FlowRow
<1>5. flow' = [flow EXCEPT ![w] = row]
  BY <1>2
<1>6. flow' \in Seq(FlowRow) /\ Len(flow') = Len(flow) /\ flow'[w].pack = pack
      /\ \A v \in Flows : v # w => flow'[v] = flow[v]
  <2> HIDE DEF row, FlowRow, pack
  <2> QED
    BY <1>2, <1>4, <1>5 DEF Flows
<1>7. Flows' = Flows
  BY <1>6 DEF Flows
<1> DEFINE m == [t \in DOMAIN job[w] \cup {s} |-> IF t = s THEN "queued" ELSE job[w][t]]
<1>8. job = [v \in Flows |-> job[v]] /\ \A v \in Flows : job[v] = [t \in DOMAIN job[v] |-> job[v][t]]
  BY DEF VisInv, VisTyped
<1>9. job'[w] = m /\ job' = [v \in Flows |-> job'[v]] /\ \A v \in Flows : v # w => job'[v] = job[v]
  <2> HIDE DEF m
  <2>1. job' = [job EXCEPT ![w] = m]
    BY DEF m
  <2> QED
    BY <1>1, <1>8, <2>1
<1>10. DOMAIN m = DOMAIN job[w] \cup {s} /\ m = [t \in DOMAIN m |-> m[t]]
       /\ \A t : Vis!Done(job[w], t) => Vis!Done(m, t)
  BY DEF Vis!Done
<1>11. \A v \in Flows : \A t : Vis!Done(job[v], t) => Vis!Done(job'[v], t)
  BY <1>9, <1>10
<1> HIDE DEF m, pack, row
<1>12. VisTyped'
  <2>1. \A v \in Flows : job'[v] = [t \in DOMAIN job'[v] |-> job'[v][t]]
    BY <1>8, <1>9, <1>10
  <2>2. (flow \in Seq(FlowRow))'
    BY <1>6 DEF FlowRow, Vis!Unit
  <2> QED
    BY <1>7, <1>9, <2>1, <2>2 DEF VisTyped
<1>13. Verdicts'
  BY <1>7, <1>11 DEF VisInv, Verdicts, Vis!Unit, Vis!Reviewed, Vis!Done
<1>14. HubTyped' /\ Readings'
  <2>1. hub' = [hub EXCEPT ![c] = [pc |-> "created", w |-> hub[c].w, jobs |-> hub[c].jobs, s |-> s]]
    BY PcMoves
  <2>2. PICK pc : pc = "created"
    OBVIOUS
  <2>3. hub' = [hub EXCEPT ![c] = [pc |-> pc, w |-> hub[c].w, jobs |-> hub[c].jobs, s |-> s]]
    BY <2>1, <2>2
  <2>4. pc # "read"
    BY <2>2
  <2> QED
    BY <1>7, <1>11, <2>3, <2>4, PlaceMoves, Zenon
<1>15. ASSUME NEW v \in Flows PROVE Grown(v)
  <2>1. CASE v # w
    BY <1>6, <1>9, <1>15, <2>1 DEF Grown, Later
  <2>2. CASE v = w
    <3>1. Later(w, job[w], job'[w]) /\ Later(w, jobs, job'[w])
      BY <1>1, <1>9, <1>10 DEF Later
    <3>2. DOMAIN job'[w] = DOMAIN job[w] \cup {s}
      BY <1>9, <1>10
    <3>3. \A t \in DOMAIN job'[w] : t \notin DOMAIN job[w] =>
              \E old : Later(w, old, job'[w]) /\ Ready(w, old, t)
      BY <3>1, <3>2
    <3>4. \/ flow'[w].pack = flow[w].pack
          \/ /\ Vis!Pack \in DOMAIN job'[w]
             /\ \E old : Later(w, old, job'[w]) /\ Admitted(w, old) /\ flow'[w].pack = Vis!Selected(w, old)
      <4>1. CASE s = Vis!Pack
        BY <1>6, <3>1, <3>2, <4>1 DEF pack
      <4>2. CASE s # Vis!Pack
        BY <1>6, <4>2 DEF pack
      <4> QED
        BY <4>1, <4>2
    <3> QED
      BY <2>2, <3>1, <3>2, <3>3, <3>4 DEF Grown
  <2> QED
    BY <2>1, <2>2
<1> QED
  BY <1>7, <1>12, <1>13, <1>14, <1>15, InvStep

LEMMA ClosedStep ==
  ASSUME PlanOK, VisInv, NEW c \in Coordinators, NEW w \in Flows, UNCHANGED <<job, usable>>,
         NEW new \in Endings, NEW why \in Reasons, NEW rejected \in BOOLEAN, Vis!Close(w, new, why, rejected),
         \/ hub' = [hub EXCEPT ![c] = Vis!Idle]
         \/ hub' = [hub EXCEPT ![c].pc = "rejected"]
  PROVE  VisInv'
<1>1. /\ flow' \in Seq(FlowRow) /\ Len(flow') = Len(flow)
      /\ \A v \in Flows : flow'[v].pack = flow[v].pack
  BY ClosedRow
<1>2. Flows' = Flows /\ \A v \in Flows : \A t : Vis!Done(job[v], t) => Vis!Done(job'[v], t)
  BY <1>1 DEF Flows
<1>3. CASE hub' = [hub EXCEPT ![c] = Vis!Idle]
  <2>1. HubTyped' /\ Readings'
    BY <1>2, <1>3, GoesIdle
  <2> QED
    BY <1>1, <2>1, QuietStep
<1>4. CASE hub' = [hub EXCEPT ![c].pc = "rejected"]
  <2>1. PICK pc : pc = "rejected"
    OBVIOUS
  <2>2. hub' = [hub EXCEPT ![c] = [pc |-> pc, w |-> hub[c].w, jobs |-> hub[c].jobs, s |-> hub[c].s]] /\ pc # "read"
    BY <1>4, <2>1, PcMoves
  <2>3. HubTyped' /\ Readings'
    BY <1>2, <2>2, PlaceMoves
  <2> QED
    BY <1>1, <2>3, QuietStep
<1> QED
  BY <1>3, <1>4

LEMMA AdvanceStep ==
  ASSUME PlanOK, VisInv, NEW c \in Coordinators, Vis!Advance(c) PROVE VisInv'
<1> DEFINE w == hub[c].w
           jobs == hub[c].jobs
           todo == Vis!Remaining(w, jobs)
           left == Vis!Left(jobs, todo)
           s == todo[Vis!Least(left)]
<1>1. hub[c].pc = "read" /\ UNCHANGED usable /\ w \in Flows
  BY DEF Vis!Advance, VisInv, Readings
<1>2. \/ /\ Vis!Close(w, "failed", "job", FALSE) /\ hub' = [hub EXCEPT ![c] = Vis!Idle] /\ UNCHANGED job
      \/ /\ Vis!Close(w, "failed", "rejected", TRUE) /\ hub' = [hub EXCEPT ![c].pc = "rejected"] /\ UNCHANGED job
      \/ /\ Vis!Close(w, IF Shadow THEN "shadow_complete" ELSE "succeeded", "", FALSE)
         /\ hub' = [hub EXCEPT ![c] = Vis!Idle] /\ UNCHANGED job
      \/ hub' = [hub EXCEPT ![c] = Vis!Idle] /\ UNCHANGED <<flow, job>>
      \/ /\ left # {} /\ hub' = [hub EXCEPT ![c].pc = "created", ![c].s = s]
         /\ IF s \in Vis!Jobs(w) THEN UNCHANGED <<flow, job>>
            ELSE /\ job' = [job EXCEPT ![w] = [t \in DOMAIN job[w] \cup {s} |-> IF t = s THEN "queued" ELSE job[w][t]]]
                 /\ flow' = [flow EXCEPT ![w].pack = IF s = Vis!Pack THEN Vis!Selected(w, jobs) ELSE flow[w].pack]
  BY DEF Vis!Advance
<1> HIDE DEF s, left, todo
<1>3. CASE Vis!Close(w, "failed", "job", FALSE) /\ hub' = [hub EXCEPT ![c] = Vis!Idle] /\ UNCHANGED job
  <2>1. PICK v : v = w
    OBVIOUS
  <2>2. PICK new \in Endings : new = ("failed")
    BY DEF Endings
  <2>3. v \in Flows /\ Vis!Close(v, new, "job", FALSE)
    BY <1>1, <1>3, <2>1, <2>2 DEF Vis!Close
  <2>4. "job" \in Reasons /\ FALSE \in BOOLEAN
    BY DEF Reasons
  <2> QED
    BY <1>1, <1>3, <2>3, <2>4, ClosedStep, Zenon
<1>4. CASE Vis!Close(w, "failed", "rejected", TRUE) /\ hub' = [hub EXCEPT ![c].pc = "rejected"] /\ UNCHANGED job
  <2>1. PICK v : v = w
    OBVIOUS
  <2>2. PICK new \in Endings : new = ("failed")
    BY DEF Endings
  <2>3. v \in Flows /\ Vis!Close(v, new, "rejected", TRUE)
    BY <1>1, <1>4, <2>1, <2>2 DEF Vis!Close
  <2>4. "rejected" \in Reasons /\ TRUE \in BOOLEAN
    BY DEF Reasons
  <2> QED
    BY <1>1, <1>4, <2>3, <2>4, ClosedStep, Zenon
<1>5. CASE Vis!Close(w, IF Shadow THEN "shadow_complete" ELSE "succeeded", "", FALSE)
           /\ hub' = [hub EXCEPT ![c] = Vis!Idle] /\ UNCHANGED job
  <2>1. PICK v : v = w
    OBVIOUS
  <2>2. PICK new \in Endings : new = (IF Shadow THEN "shadow_complete" ELSE "succeeded")
    BY DEF Endings
  <2>3. v \in Flows /\ Vis!Close(v, new, "", FALSE)
    BY <1>1, <1>5, <2>1, <2>2 DEF Vis!Close
  <2>4. "" \in Reasons /\ FALSE \in BOOLEAN
    BY DEF Reasons
  <2> QED
    BY <1>1, <1>5, <2>3, <2>4, ClosedStep, Zenon
<1>6. CASE hub' = [hub EXCEPT ![c] = Vis!Idle] /\ UNCHANGED <<flow, job>>
  <2>1. HubTyped' /\ Readings'
    BY <1>6, GoesIdle, StandsStill
  <2> QED
    BY <1>1, <1>6, <2>1, HubOnly
<1>7. CASE left # {} /\ hub' = [hub EXCEPT ![c].pc = "created", ![c].s = s] /\ UNCHANGED <<flow, job>>
  <2>1. PICK pc : pc = "created"
    OBVIOUS
  <2>2. hub' = [hub EXCEPT ![c] = [pc |-> pc, w |-> hub[c].w, jobs |-> hub[c].jobs, s |-> s]] /\ pc # "read"
    BY <1>7, <2>1, PcMoves
  <2>3. HubTyped' /\ Readings'
    BY <1>1, <1>7, <2>2, PlaceMoves, StandsStill
  <2> QED
    BY <1>1, <1>7, <2>3, HubOnly
<1>8. CASE /\ left # {} /\ hub' = [hub EXCEPT ![c].pc = "created", ![c].s = s] /\ s \notin Vis!Jobs(w)
           /\ job' = [job EXCEPT ![w] = [t \in DOMAIN job[w] \cup {s} |-> IF t = s THEN "queued" ELSE job[w][t]]]
           /\ flow' = [flow EXCEPT ![w].pack = IF s = Vis!Pack THEN Vis!Selected(w, jobs) ELSE flow[w].pack]
  <2>1. Ready(w, jobs, s) /\ (s = Vis!Pack => Admitted(w, jobs))
    BY <1>8, NextReady DEF s, left, todo
  <2>2. s \notin DOMAIN job[w]
    BY <1>8 DEF Vis!Jobs
  <2> QED
    BY <1>1, <1>8, <2>1, <2>2, StageCreated
<1> QED
  BY <1>2, <1>3, <1>4, <1>5, <1>6, <1>7, <1>8

(* The ledger gives a stage that has not succeeded another status.         *)
LEMMA PutStep ==
  ASSUME PlanOK, VisInv, NEW w \in Flows, NEW t \in DOMAIN job[w], NEW now, ~Vis!Done(job[w], t),
         UNCHANGED <<flow, hub>>, job' = [job EXCEPT ![w][t] = now],
         \/ usable' = usable
         \/ \E u : t = <<"review", u>> /\ now = "succeeded" /\ usable' = usable \cup {<<w, u>>}
  PROVE  VisInv'
<1> DEFINE m == [x \in DOMAIN job[w] |-> IF x = t THEN now ELSE job[w][x]]
<1>1. job = [v \in Flows |-> job[v]] /\ \A v \in Flows : job[v] = [x \in DOMAIN job[v] |-> job[v][x]]
  BY DEF VisInv, VisTyped
<1>2. Flows' = Flows
  BY DEF Flows
<1>3. job'[w] = m /\ job' = [v \in Flows |-> job'[v]] /\ \A v \in Flows : v # w => job'[v] = job[v]
  <2>1. [job[w] EXCEPT ![t] = now] = m
    BY <1>1
  <2>2. job' = [job EXCEPT ![w] = m]
    BY <2>1
  <2> HIDE DEF m
  <2> QED
    BY <1>1, <2>2
<1>4. DOMAIN m = DOMAIN job[w] /\ m = [x \in DOMAIN m |-> m[x]] /\ m[t] = now
      /\ \A x : Vis!Done(job[w], x) => Vis!Done(m, x)
  BY DEF Vis!Done
<1> HIDE DEF m
<1>5. \A v \in Flows : \A x : Vis!Done(job[v], x) => Vis!Done(job'[v], x)
  BY <1>3, <1>4
<1>6. VisTyped'
  <2>1. \A v \in Flows : job'[v] = [x \in DOMAIN job'[v] |-> job'[v][x]]
    <3> SUFFICES ASSUME NEW v \in Flows PROVE job'[v] = [x \in DOMAIN job'[v] |-> job'[v][x]]
      OBVIOUS
    <3>1. CASE v = w
      BY <1>3, <1>4, <3>1
    <3>2. CASE v # w
      BY <1>1, <1>3, <3>2
    <3> QED
      BY <3>1, <3>2
  <2>2. (flow \in Seq(FlowRow))'
    BY DEF FlowRow, Vis!Unit, VisInv, VisTyped
  <2> QED
    BY <1>2, <1>3, <2>1, <2>2 DEF VisTyped
<1>7. \A v \in Flows : \A u : <<v, u>> \in usable' /\ <<v, u>> \notin usable =>
         v = w /\ t = <<"review", u>> /\ now = "succeeded" /\ u \in Vis!Unit
  <2> SUFFICES ASSUME NEW v \in Flows, NEW u, <<v, u>> \in usable', <<v, u>> \notin usable
               PROVE  v = w /\ t = <<"review", u>> /\ now = "succeeded" /\ u \in Vis!Unit
    OBVIOUS
  <2>1. v = w /\ t = <<"review", u>> /\ now = "succeeded"
    OBVIOUS
  <2>2. PICK j : j = job[w]
    OBVIOUS
  <2>3. Ready(w, j, <<"review", u>>)
    BY <2>1, <2>2 DEF VisInv, Stages
  <2>4. PICK a : a = "review"
    OBVIOUS
  <2>5. Ready(w, j, <<a, u>>) /\ a \notin {"plan", "pack", "encode", "features", "experience"}
    BY <2>3, <2>4
  <2>6. u \in Vis!Unit
    BY <2>5, ReviewIsChain
  <2> QED
    BY <2>1, <2>6
<1>8. usable \subseteq usable' /\ usable' \subseteq Flows \X Vis!Unit
  <2>1. usable \subseteq Flows \X Vis!Unit /\ usable \subseteq usable'
    BY DEF VisInv, Verdicts
  <2>2. ASSUME NEW p \in usable', p \notin usable PROVE p \in Flows \X Vis!Unit
    <3>1. PICK u : p = <<w, u>>
      BY <2>2
    <3> QED
      BY <1>7, <2>2, <3>1
  <2> QED
    BY <2>1, <2>2
<1>9. Verdicts'
  <2>1. ASSUME NEW v \in Flows, NEW u \in Vis!Unit, <<v, u>> \in usable' PROVE Vis!Reviewed(job'[v], u)
    <3>1. CASE <<v, u>> \in usable
      BY <1>5, <2>1, <3>1 DEF VisInv, Verdicts, Vis!Reviewed
    <3>2. CASE <<v, u>> \notin usable
      BY <1>3, <1>4, <1>7, <2>1, <3>2 DEF Vis!Reviewed, Vis!Done
    <3> QED
      BY <3>1, <3>2
  <2> QED
    BY <1>2, <1>8, <2>1 DEF Verdicts, Vis!Unit, Vis!Reviewed, Vis!Done
<1>10. HubTyped' /\ Readings'
  BY <1>2, <1>5, HubRests
<1>11. ASSUME NEW v \in Flows PROVE Grown(v)
  <2>1. Later(v, job[v], job'[v])
    BY <1>5, <1>7, <1>8 DEF Later, Vis!Reviewed
  <2>2. DOMAIN job'[v] = DOMAIN job[v]
    BY <1>3, <1>4
  <2> QED
    BY <2>1, <2>2 DEF Grown
<1> QED
  BY <1>2, <1>6, <1>9, <1>10, <1>11, InvStep

LEMMA StageIsPair ==
  ASSUME PlanOK, NEW w, NEW jobs, NEW t, Ready(w, jobs, t) PROVE t = <<t[1], t[2]>>
<1>1. CASE t = Vis!Plan
  BY <1>1 DEF Vis!Plan
<1>2. CASE ChainStage(w, jobs, t)
  BY <1>2 DEF ChainStage
<1>3. CASE AdmissionStage(w, jobs, t)
  <2>1. PICK k \in DOMAIN Vis!Admission(w, jobs) : t = Vis!Admission(w, jobs)[k]
    BY <1>3 DEF AdmissionStage
  <2>2. PICK a \in {"pack", "encode", "features", "experience"}, b \in Nat : t = <<a, b>>
    BY <2>1, AdmissionShape
  <2> QED
    BY <2>2
<1> QED
  BY <1>1, <1>2, <1>3 DEF Ready

(* A stage of the ledger, by the number of its workflow and its name.      *)
LEMMA Placed ==
  ASSUME VisInv, NEW p, p \in UNION {{w} \X Vis!Jobs(w) : w \in Vis!Workflows}
  PROVE  p[1] \in Flows /\ p[2] \in DOMAIN job[p[1]] /\ p = <<p[1], p[2]>>
BY WorkflowsAre DEF Vis!Jobs

LEMMA LedgerStep ==
  ASSUME PlanOK, VisInv, Vis!JobSucceeds \/ Vis!JobFails \/ Vis!JobRepaired \/ Vis!JobCancelled
  PROVE  VisInv'
<1>1. ASSUME NEW p, NEW now, UNCHANGED <<flow, hub>>, job' = [job EXCEPT ![p[1]][p[2]] = now],
             p \in Vis!Queued \/ p \in Vis!Failed,
             \/ usable' = usable
             \/ p[2][1] = "review" /\ now = "succeeded" /\ usable' = usable \cup {<<p[1], p[2][2]>>}
      PROVE  VisInv'
  <2>1. p[1] \in Flows /\ p[2] \in DOMAIN job[p[1]] /\ job[p[1]][p[2]] \in {"queued", "failed"}
    BY <1>1, Placed DEF Vis!Queued, Vis!Failed
  <2>2. PICK w \in Flows, t \in DOMAIN job[p[1]] : w = p[1] /\ t = p[2]
    BY <2>1
  <2>3. t \in DOMAIN job[w] /\ ~Vis!Done(job[w], t) /\ job' = [job EXCEPT ![w][t] = now]
    BY <1>1, <2>1, <2>2 DEF Vis!Done
  <2>4. t = <<t[1], t[2]>>
    <3>1. PICK j : j = job[w]
      OBVIOUS
    <3>2. Ready(w, j, t)
      BY <2>3, <3>1 DEF VisInv, Stages
    <3> QED
      BY <3>2, StageIsPair
  <2>5. \/ usable' = usable
        \/ \E u : t = <<"review", u>> /\ now = "succeeded" /\ usable' = usable \cup {<<w, u>>}
    BY <1>1, <2>2, <2>4
  <2> QED
    BY <1>1, <2>3, <2>5, PutStep
<1>2. CASE Vis!JobSucceeds
  <2>1. PICK p \in Vis!Queued :
          /\ Vis!Put(p, "succeeded") /\ UNCHANGED <<flow, hub>>
          /\ \/ usable' = usable
             \/ p[2][1] = "review" /\ usable' = usable \cup {<<p[1], p[2][2]>>}
    BY <1>2 DEF Vis!JobSucceeds
  <2>2. PICK now : now = "succeeded"
    OBVIOUS
  <2>3. job' = [job EXCEPT ![p[1]][p[2]] = now]
    BY <2>1, <2>2 DEF Vis!Put
  <2> QED
    BY <1>1, <2>1, <2>2, <2>3
<1>3. CASE Vis!JobFails
  <2>1. PICK p \in Vis!Queued : Vis!Put(p, "failed") /\ UNCHANGED <<flow, hub, usable>>
    BY <1>3 DEF Vis!JobFails
  <2> QED
    BY <1>1, <2>1 DEF Vis!Put
<1>4. CASE Vis!JobRepaired
  <2>1. PICK p \in Vis!Failed : Vis!Put(p, "queued") /\ UNCHANGED <<flow, hub, usable>>
    BY <1>4 DEF Vis!JobRepaired
  <2> QED
    BY <1>1, <2>1 DEF Vis!Put
<1>5. CASE Vis!JobCancelled
  <2>1. PICK p \in Vis!Queued : Vis!Put(p, "cancelled") /\ UNCHANGED <<flow, hub, usable>>
    BY <1>5 DEF Vis!JobCancelled
  <2> QED
    BY <1>1, <2>1 DEF Vis!Put
<1> QED
  BY <1>2, <1>3, <1>4, <1>5

(* The steps that leave the workflows, their stages and verdicts alone.    *)
LEMMA RestingStep ==
  ASSUME PlanOK, VisInv, UNCHANGED <<flow, job, usable>>,
         \/ UNCHANGED hub
         \/ \E c \in Coordinators : hub' = [hub EXCEPT ![c] = Vis!Idle]
         \/ \E c \in Coordinators, pc \in {"commission", "notify"} : hub' = [hub EXCEPT ![c].pc = pc]
  PROVE  VisInv'
<1>1. CASE UNCHANGED hub
  BY <1>1, HubRests, StandsStill, HubOnly
<1>2. CASE \E c \in Coordinators : hub' = [hub EXCEPT ![c] = Vis!Idle]
  <2>1. PICK c \in Coordinators : hub' = [hub EXCEPT ![c] = Vis!Idle]
    BY <1>2
  <2>2. HubTyped' /\ Readings'
    BY <2>1, GoesIdle, StandsStill
  <2> QED
    BY <2>2, HubOnly
<1>3. CASE \E c \in Coordinators, pc \in {"commission", "notify"} : hub' = [hub EXCEPT ![c].pc = pc]
  <2>1. PICK c \in Coordinators, pc \in {"commission", "notify"} : hub' = [hub EXCEPT ![c].pc = pc]
    BY <1>3
  <2>2. hub' = [hub EXCEPT ![c] = [pc |-> pc, w |-> hub[c].w, jobs |-> hub[c].jobs, s |-> hub[c].s]] /\ pc # "read"
    BY <2>1, PcMoves
  <2>3. HubTyped' /\ Readings'
    BY <2>2, PlaceMoves, StandsStill
  <2> QED
    BY <2>3, HubOnly
<1> QED
  BY <1>1, <1>2, <1>3

LEMMA CommissionStep ==
  ASSUME PlanOK, VisInv, Vis!OnCallRecommission PROVE VisInv'
<1>1. PICK c \in Coordinators, w \in Vis!Workflows :
         UNCHANGED <<flow, job, usable>> /\ hub' = [hub EXCEPT ![c] = [Vis!Idle EXCEPT !.pc = "commission", !.w = w]]
  BY DEF Vis!OnCallRecommission
<1>2. PICK pc, e, z : pc = "commission" /\ e = << >> /\ z = 0
  OBVIOUS
<1>3. [Vis!Idle EXCEPT !.pc = "commission", !.w = w] = [pc |-> pc, w |-> w, jobs |-> e, s |-> Null]
  <2>1. Vis!Idle = [pc |-> "idle", w |-> z, jobs |-> e, s |-> Null]
    BY <1>2 DEF Vis!Idle
  <2> DEFINE a == [Vis!Idle EXCEPT !.pc = "commission"]
  <2>2. a = [pc |-> pc, w |-> z, jobs |-> e, s |-> Null]
    BY <1>2, <2>1
  <2>3. [a EXCEPT !.w = w] = [pc |-> pc, w |-> w, jobs |-> e, s |-> Null]
    <3> HIDE DEF a
    <3> QED
      BY <2>2
  <2> QED
    BY <2>3
<1>4. hub' = [hub EXCEPT ![c] = [pc |-> pc, w |-> w, jobs |-> e, s |-> Null]]
  BY <1>1, <1>3
<1>5. HubTyped' /\ Readings'
  <2>1. pc # "read"
    BY <1>2
  <2>2. Flows \subseteq Flows' /\ \A v \in Flows : \A t : Vis!Done(job[v], t) => Vis!Done(job'[v], t)
    BY <1>1, StandsStill
  <2> QED
    BY <1>4, <2>1, <2>2, HubMoves, Zenon
<1> QED
  BY <1>1, <1>5, HubOnly

(* A row that is told or opened again keeps its pack.                      *)
LEMMA RowKept ==
  ASSUME PlanOK, VisInv, NEW w,
         \/ flow' = [flow EXCEPT ![w].told = TRUE]
         \/ flow' = [flow EXCEPT ![w].status = "active"]
  PROVE  /\ flow' \in Seq(FlowRow) /\ Len(flow') = Len(flow)
         /\ \A v \in Flows : flow'[v].pack = flow[v].pack
<1>1. flow \in Seq(FlowRow) /\ DOMAIN flow = Flows /\ flow = [v \in DOMAIN flow |-> flow[v]]
  BY DEF VisInv, VisTyped, Flows
<1>2. CASE w \in Flows
  <2>1. flow[w] \in FlowRow
    BY <1>1, <1>2
  <2>2. /\ [flow[w] EXCEPT !.told = TRUE] \in FlowRow
        /\ [flow[w] EXCEPT !.told = TRUE].pack = flow[w].pack
    BY <2>1 DEF FlowRow
  <2>3. /\ [flow[w] EXCEPT !.status = "active"] \in FlowRow
        /\ [flow[w] EXCEPT !.status = "active"].pack = flow[w].pack
    BY <2>1 DEF FlowRow, Endings
  <2>4. PICK row \in FlowRow : row.pack = flow[w].pack /\ flow' = [flow EXCEPT ![w] = row]
    BY <2>2, <2>3
  <2> QED
    BY <1>2, <2>4, FlowMoves
<1>3. CASE w \notin Flows
  <2>1. flow' = flow
    BY <1>1, <1>3
  <2> QED
    BY <1>1, <2>1
<1> QED
  BY <1>2, <1>3

LEMMA NotifyStep ==
  ASSUME PlanOK, VisInv, NEW c \in Coordinators, Vis!Notify(c) PROVE VisInv'
<1>1. PICK w : w = hub[c].w
  OBVIOUS
<1>2. UNCHANGED <<job, usable>> /\ hub' = [hub EXCEPT ![c] = Vis!Idle] /\ flow' = [flow EXCEPT ![w].told = TRUE]
  BY <1>1 DEF Vis!Notify
<1>3. /\ flow' \in Seq(FlowRow) /\ Len(flow') = Len(flow)
      /\ \A v \in Flows : flow'[v].pack = flow[v].pack
  BY <1>2, RowKept
<1>4. Flows' = Flows /\ \A v \in Flows : \A t : Vis!Done(job[v], t) => Vis!Done(job'[v], t)
  BY <1>2, <1>3 DEF Flows
<1>5. HubTyped' /\ Readings'
  BY <1>2, <1>4, GoesIdle
<1> QED
  BY <1>2, <1>3, <1>5, QuietStep

LEMMA ReopenStep ==
  ASSUME PlanOK, VisInv, Vis!Reopen PROVE VisInv'
<1>1. PICK w : UNCHANGED <<job, usable, hub>> /\ flow' = [flow EXCEPT ![w].status = "active"]
  BY DEF Vis!Reopen
<1>2. /\ flow' \in Seq(FlowRow) /\ Len(flow') = Len(flow)
      /\ \A v \in Flows : flow'[v].pack = flow[v].pack
  BY <1>1, RowKept
<1>3. Flows' = Flows /\ \A v \in Flows : \A t : Vis!Done(job[v], t) => Vis!Done(job'[v], t)
  BY <1>1, <1>2 DEF Flows
<1>4. HubTyped' /\ Readings'
  BY <1>1, <1>3, HubRests
<1> QED
  BY <1>1, <1>2, <1>4, QuietStep

(* A successor begins with no stage.                                       *)
LEMMA SuccessorStep ==
  ASSUME PlanOK, VisInv, NEW c \in Coordinators, Vis!CreateSuccessor(c) PROVE VisInv'
<1> DEFINE row == [status |-> "active", why |-> "", pack |-> {}, told |-> FALSE, rejected |-> FALSE]
           n == Len(flow)
<1>1. UNCHANGED usable /\ hub' = [hub EXCEPT ![c] = Vis!Idle] /\ flow' = Append(flow, row) /\ job' = Append(job, << >>)
  BY DEF Vis!CreateSuccessor
<1>2. row \in FlowRow /\ row.pack = {}
  BY DEF FlowRow, Endings, Reasons
<1>3. flow \in Seq(FlowRow) /\ n \in Nat
  BY DEF VisInv, VisTyped
<1> HIDE DEF row, FlowRow
<1>4. flow' \in Seq(FlowRow) /\ Len(flow') = n + 1 /\ flow'[n + 1] = row
      /\ \A v \in 1..n : flow'[v] = flow[v]
  BY <1>1, <1>2, <1>3
<1>5. PICK e : e = << >>
  OBVIOUS
<1>6. job = [v \in 1..n |-> job[v]] /\ \A v \in 1..n : job[v] = [x \in DOMAIN job[v] |-> job[v][x]]
  BY DEF VisInv, VisTyped, Flows
<1>7. job' = [v \in 1..(n + 1) |-> job'[v]] /\ job'[n + 1] = e /\ \A v \in 1..n : job'[v] = job[v]
  <2> DEFINE S == {job[v] : v \in 1..n} \cup {e}
  <2>1. job \in [1..n -> S]
    BY <1>6
  <2> HIDE DEF S, n
  <2>2. job \in Seq(S) /\ Len(job) = n
    BY <1>3, <2>1, FunctionIsSeq
  <2>3. e \in S
    BY DEF S
  <2>4. job' = Append(job, e)
    BY <1>1, <1>5
  <2>5. job' \in Seq(S) /\ Len(job') = n + 1 /\ job'[n + 1] = e
    BY <2>2, <2>3, <2>4, AppendProperties
  <2>6. \A v \in 1..n : job'[v] = job[v]
    BY <2>2, <2>3, <2>4, AppendProperties
  <2>7. DOMAIN job' = 1..(n + 1) /\ job' = [v \in DOMAIN job' |-> job'[v]]
    BY <2>5, LenProperties
  <2> QED
    BY <2>5, <2>6, <2>7
<1>8. DOMAIN e = {} /\ e = [x \in DOMAIN e |-> e[x]]
  BY <1>5
<1> HIDE DEF n
<1>9. Flows = 1..n /\ Flows' = 1..(n + 1) /\ Flows' = Flows \cup {n + 1} /\ n + 1 \notin Flows
  <2>1. Flows = 1..n /\ Flows' = 1..(n + 1)
    BY <1>4 DEF Flows, n
  <2> QED
    BY <1>3, <2>1
<1>10. \A v \in Flows : \A t : Vis!Done(job[v], t) => Vis!Done(job'[v], t)
  BY <1>7, <1>9
<1>11. VisTyped'
  <2>1. (flow \in Seq(FlowRow))'
    BY <1>4 DEF FlowRow, Vis!Unit
  <2>2. \A v \in Flows' : job'[v] = [t \in DOMAIN job'[v] |-> job'[v][t]]
    <3> SUFFICES ASSUME NEW v \in Flows' PROVE job'[v] = [t \in DOMAIN job'[v] |-> job'[v][t]]
      OBVIOUS
    <3>1. CASE v \in 1..n
      BY <1>6, <1>7, <3>1
    <3>2. CASE v = n + 1
      BY <1>7, <1>8, <3>2
    <3> QED
      BY <1>9, <3>1, <3>2
  <2> QED
    BY <1>7, <1>9, <2>1, <2>2 DEF VisTyped
<1>12. Verdicts'
  <2>1. usable \subseteq Flows' \X Vis!Unit
    BY <1>9 DEF VisInv, Verdicts
  <2>2. ASSUME NEW v \in Flows', NEW u \in Vis!Unit, <<v, u>> \in usable PROVE Vis!Reviewed(job'[v], u)
    <3>1. v \in Flows /\ Vis!Reviewed(job[v], u)
      BY <2>2 DEF VisInv, Verdicts
    <3> QED
      BY <1>10, <3>1 DEF Vis!Reviewed
  <2> QED
    BY <1>1, <2>1, <2>2 DEF Verdicts, Vis!Unit, Vis!Reviewed, Vis!Done
<1>13. HubTyped' /\ Readings'
  BY <1>1, <1>9, <1>10, GoesIdle
<1>14. ASSUME NEW v \in Flows PROVE Grown(v)
  BY <1>1, <1>4, <1>7, <1>9 DEF Grown, Later
<1>15. \A v \in Flows' : v \notin Flows => DOMAIN job'[v] = {} /\ flow'[v].pack = {}
  BY <1>2, <1>4, <1>7, <1>8, <1>9
<1> QED
  BY <1>9, <1>11, <1>12, <1>13, <1>14, <1>15, InvStep

LEMMA VisStart == ASSUME PlanOK, Vis!Init PROVE VisInv
<1> DEFINE row == [status |-> "active", why |-> "", pack |-> {}, told |-> FALSE, rejected |-> FALSE]
<1>1. row \in FlowRow /\ row.pack = {}
  BY DEF FlowRow, Endings, Reasons
<1>2. flow = <<row>> /\ usable = {} /\ hub = [c \in Coordinators |-> Vis!Idle]
  BY DEF Vis!Init
<1>3. PICK e : e = << >> /\ job = <<e>>
  BY DEF Vis!Init
<1>4. Vis!Idle = [pc |-> "idle", w |-> 0, jobs |-> e, s |-> Null]
  BY <1>3 DEF Vis!Idle
<1>5. DOMAIN e = {} /\ e = [x \in DOMAIN e |-> e[x]]
  BY <1>3
<1> HIDE DEF row, FlowRow
<1>6. flow \in Seq(FlowRow) /\ Flows = {1} /\ flow[1] = row
  BY <1>1, <1>2 DEF Flows
<1>7. job = [v \in {1} |-> job[v]] /\ job[1] = e
  BY <1>3
<1>8. VisTyped
  BY <1>5, <1>6, <1>7 DEF VisTyped
<1>9. HubTyped
  BY <1>2, <1>4 DEF HubTyped
<1>10. Verdicts /\ Stages
  BY <1>2, <1>5, <1>6, <1>7 DEF Verdicts, Stages
<1>11. Packs
  BY <1>1, <1>6 DEF Packs
<1>12. Readings
  <2>1. \A c \in Coordinators : hub[c].pc = "idle"
    BY <1>2, <1>4
  <2> QED
    BY <2>1 DEF Readings
<1> QED
  BY <1>8, <1>9, <1>10, <1>11, <1>12 DEF VisInv

LEMMA VisStep ==
  ASSUME PlanOK, VisInv, [Vis!Next]_(Vis!vars) PROVE VisInv'
<1>1. CASE UNCHANGED Vis!vars
  BY <1>1, RestingStep DEF Vis!vars
<1>2. ASSUME NEW c \in Coordinators, Vis!Read(c) PROVE VisInv'
  BY <1>2, ReadStep
<1>3. ASSUME NEW c \in Coordinators, Vis!AdvanceBlocked(c) PROVE VisInv'
  BY <1>3, RestingStep DEF Vis!AdvanceBlocked
<1>4. ASSUME NEW c \in Coordinators, Vis!Advance(c) PROVE VisInv'
  BY <1>4, AdvanceStep
<1>5. ASSUME NEW c \in Coordinators, Vis!Link(c) PROVE VisInv'
  BY <1>5, RestingStep DEF Vis!Link
<1>6. ASSUME NEW c \in Coordinators, Vis!DecideSuccessor(c) PROVE VisInv'
  <2>1. PICK pc \in {"commission", "notify"} : hub' = [hub EXCEPT ![c].pc = pc] /\ UNCHANGED <<flow, job, usable>>
    BY <1>6 DEF Vis!DecideSuccessor
  <2> QED
    BY <2>1, RestingStep
<1>7. ASSUME NEW c \in Coordinators, Vis!CreateSuccessor(c) PROVE VisInv'
  BY <1>7, SuccessorStep
<1>8. ASSUME NEW c \in Coordinators, Vis!SuccessorRefused(c) PROVE VisInv'
  BY <1>8, RestingStep DEF Vis!SuccessorRefused
<1>9. ASSUME NEW c \in Coordinators, Vis!Notify(c) PROVE VisInv'
  BY <1>9, NotifyStep
<1>10. ASSUME NEW c \in Coordinators, Vis!Crash(c) PROVE VisInv'
  BY <1>10, RestingStep DEF Vis!Crash
<1>11. CASE Vis!OnCallRecommission
  BY <1>11, CommissionStep
<1>12. CASE Vis!Reopen
  BY <1>12, ReopenStep
<1>13. CASE Vis!JobSucceeds \/ Vis!JobFails \/ Vis!JobRepaired \/ Vis!JobCancelled
  BY <1>13, LedgerStep
<1>14. CASE Vis!JobRetriedAsConfigured
  BY <1>14, RestingStep DEF Vis!JobRetriedAsConfigured
<1>15. CASE Vis!IncidentRecovers
  BY <1>15, RestingStep DEF Vis!IncidentRecovers
<1>16. CASE Vis!IncidentGivenUp
  BY <1>16, RestingStep DEF Vis!IncidentGivenUp
<1> QED
  BY <1>1, <1>2, <1>3, <1>4, <1>5, <1>6, <1>7, <1>8, <1>9, <1>10, <1>11, <1>12, <1>13, <1>14, <1>15, <1>16
     DEF Vis!Next

(* What a workflow keeps, whose stages were ready when they were created.  *)
Orderly(w, jobs) ==
  /\ \A s \in DOMAIN jobs : Ready(w, jobs, s)
  /\ \A u \in Vis!Unit : <<w, u>> \in usable => Vis!Reviewed(jobs, u)

LEMMA OrderlyReview ==
  ASSUME PlanOK, NEW w, NEW jobs, Orderly(w, jobs), NEW u, Vis!Reviewed(jobs, u)
  PROVE  Begun(w, jobs, u) /\ \A k \in DOMAIN Vis!Chain : Vis!Done(jobs, <<Vis!Chain[k], u>>)
<1>1. Ready(w, jobs, <<"review", u>>) /\ Vis!Done(jobs, <<"review", u>>)
  BY DEF Orderly, Vis!Reviewed, Vis!Done
<1>2. ChainStage(w, jobs, <<"review", u>>) /\ Begun(w, jobs, u)
  BY <1>1, ReviewIsChain
<1>3. PICK k \in DOMAIN Vis!Chain :
         Vis!Chain[k] = "review" /\ \A j \in 1..(k - 1) : Vis!Done(jobs, <<Vis!Chain[j], u>>)
  BY <1>2 DEF ChainStage
<1>4. k = Len(Vis!Chain) /\ DOMAIN Vis!Chain = 1..Len(Vis!Chain) /\ Len(Vis!Chain) \in Nat
  BY <1>3, ChainShape
<1>5. ASSUME NEW l \in DOMAIN Vis!Chain PROVE Vis!Done(jobs, <<Vis!Chain[l], u>>)
  <2>1. l = k \/ l \in 1..(k - 1)
    BY <1>4
  <2>2. Vis!Done(jobs, <<Vis!Chain[k], u>>)
    BY <1>1, <1>3
  <2> QED
    BY <1>3, <2>1, <2>2
<1> QED
  BY <1>2, <1>5

(* In an item that has its image, what was begun by then was reviewed.     *)
LEMMA SuppliedBefore ==
  ASSUME PlanOK, NEW w, NEW jobs, Orderly(w, jobs), NEW u \in Vis!Unit,
         Vis!ItemOf(u) \in Vis!AcceptedItems(w, jobs)
  PROVE  \/ Vis!Reviewed(jobs, u)
         \/ \E x \in Vis!Unit : /\ Vis!ItemOf(x) = Vis!ItemOf(u) /\ x < u
                                /\ x \notin Vis!Mates(u) /\ <<w, x>> \in usable
<1>1. PICK x \in Vis!Accepted(w, jobs, Vis!ItemOf(u)) : TRUE
  BY DEF Vis!AcceptedItems
<1>2. /\ x \in Vis!Unit /\ Vis!ItemOf(x) = Vis!ItemOf(u) /\ <<w, x>> \in usable
      /\ \A y \in Vis!Mates(x) : Vis!Reviewed(jobs, y)
  BY DEF Vis!Accepted
<1>3. CASE u \in Vis!Mates(x)
  BY <1>2, <1>3
<1>4. CASE u \notin Vis!Mates(x) /\ x < u
  BY <1>2, <1>4, MatesAlike
<1>5. CASE u \notin Vis!Mates(x) /\ u < x
  <2>1. Vis!Reviewed(jobs, x)
    BY <1>2, MatesAlike
  <2>2. Vis!Visited(w, jobs, x)
    BY <2>1, OrderlyReview DEF Begun
  <2> QED
    BY <1>2, <1>5, <2>2 DEF Vis!Visited
<1>6. u = x \/ u < x \/ x < u
  BY <1>2, UnitsCount
<1>7. u = x => u \in Vis!Mates(x)
  BY MatesAlike
<1> QED
  BY <1>3, <1>4, <1>5, <1>6, <1>7

LEMMA BegunReviewed ==
  ASSUME PlanOK, NEW w, NEW jobs, Orderly(w, jobs), NEW u \in Vis!Unit, Begun(w, jobs, u),
         Vis!ItemOf(u) \in Vis!AcceptedItems(w, jobs)
  PROVE  Vis!Reviewed(jobs, u)
BY SuppliedBefore DEF Begun, Vis!Visited

LEMMA BegunInOrder ==
  ASSUME PlanOK, NEW w, NEW jobs, NEW u \in Vis!Unit, NEW v \in Vis!Unit, v < u, Begun(w, jobs, u)
  PROVE  \/ Vis!Reviewed(jobs, v)
         \/ Vis!ItemOf(v) < Vis!ItemOf(u) /\ Vis!ItemOf(v) \in Vis!AcceptedItems(w, jobs)
<1>1. v <= u
  BY UnitsCount
<1>2. Vis!ItemOf(v) <= Vis!ItemOf(u) /\ Vis!ItemOf(v) \in 1..Items /\ Vis!ItemOf(u) \in 1..Items
  BY <1>1, ItemOrder
<1>3. CASE Vis!ItemOf(v) = Vis!ItemOf(u)
  BY <1>3 DEF Begun, Vis!Visited
<1>4. CASE Vis!ItemOf(v) # Vis!ItemOf(u)
  <2>1. Vis!ItemOf(v) < Vis!ItemOf(u)
    BY <1>2, <1>4
  <2> QED
    BY <2>1 DEF Begun, Vis!Visited
<1> QED
  BY <1>3, <1>4

(* Of two stages that were created, one is done.                           *)
LEMMA ChainThenDone ==
  ASSUME PlanOK, NEW w, NEW jobs, Orderly(w, jobs), NEW s, NEW t,
         ChainStage(w, jobs, s), ~Vis!Done(jobs, s), ~Vis!Done(jobs, t),
         ChainStage(w, jobs, t) \/ AdmissionStage(w, jobs, t)
  PROVE  s = t
<1>1. PICK u \in Vis!Unit, k \in DOMAIN Vis!Chain :
         /\ s = <<Vis!Chain[k], u>> /\ Begun(w, jobs, u)
         /\ \A j \in 1..(k - 1) : Vis!Done(jobs, <<Vis!Chain[j], u>>)
  BY DEF ChainStage
<1>2. ~Vis!Reviewed(jobs, u)
  BY <1>1, OrderlyReview
<1>3. Vis!ItemOf(u) \notin Vis!AcceptedItems(w, jobs)
  BY <1>1, <1>2, BegunReviewed
<1>4. CASE ChainStage(w, jobs, t)
  <2>1. PICK v \in Vis!Unit, l \in DOMAIN Vis!Chain :
          /\ t = <<Vis!Chain[l], v>> /\ Begun(w, jobs, v)
          /\ \A j \in 1..(l - 1) : Vis!Done(jobs, <<Vis!Chain[j], v>>)
    BY <1>4 DEF ChainStage
  <2>2. ~Vis!Reviewed(jobs, v)
    BY <2>1, OrderlyReview
  <2>3. Vis!ItemOf(v) \notin Vis!AcceptedItems(w, jobs)
    BY <2>1, <2>2, BegunReviewed
  <2>4. ~(v < u)
    BY <1>1, <2>1, <2>2, <2>3, BegunInOrder
  <2>5. ~(u < v)
    BY <1>1, <1>2, <1>3, <2>1, BegunInOrder
  <2>6. u = v
    BY <2>4, <2>5, UnitsCount
  <2>7. DOMAIN Vis!Chain \subseteq Nat \ {0}
    BY ChainShape
  <2>8. k = l \/ k \in 1..(l - 1) \/ l \in 1..(k - 1)
    BY <2>7
  <2> QED
    BY <1>1, <2>1, <2>6, <2>8
<1>5. CASE AdmissionStage(w, jobs, t)
  <2>1. Settled(w, jobs, u)
    BY <1>5 DEF AdmissionStage, Admitted
  <2>2. ~Exact /\ PackLimit <= AcceptedBefore(w, jobs, Vis!ItemOf(u))
    BY <1>2, <1>3, <2>1 DEF Settled
  <2>3. AcceptedBefore(w, jobs, Vis!ItemOf(u)) < PackLimit
    BY <1>1, <2>2, SameCardinality DEF Begun, Vis!Visited, AcceptedBefore
  <2>4. Vis!ItemOf(u) \in Nat /\ Vis!ItemOf(u) <= Vis!ItemOf(u)
    <3>1. Vis!ItemOf(u) \in 1..Items
      BY ItemOrder
    <3> QED
      BY <3>1
  <2>5. AcceptedBefore(w, jobs, Vis!ItemOf(u)) \in Nat
    BY <2>4, AcceptedBeforeTyped
  <2> QED
    BY <2>2, <2>3, <2>5 DEF PlanOK
<1> QED
  BY <1>4, <1>5

LEMMA OneOpenStage ==
  ASSUME PlanOK, NEW w, NEW jobs, Orderly(w, jobs), NEW s \in DOMAIN jobs, NEW t \in DOMAIN jobs,
         ~Vis!Done(jobs, s), ~Vis!Done(jobs, t)
  PROVE  s = t
<1>1. Ready(w, jobs, s) /\ Ready(w, jobs, t)
  BY DEF Orderly
<1>2. CASE s = Vis!Plan \/ t = Vis!Plan
  BY <1>1, <1>2 DEF Ready
<1>3. CASE ChainStage(w, jobs, s) /\ t # Vis!Plan
  BY <1>1, <1>3, ChainThenDone DEF Ready
<1>4. CASE ChainStage(w, jobs, t) /\ s # Vis!Plan
  BY <1>1, <1>4, ChainThenDone DEF Ready
<1>5. CASE AdmissionStage(w, jobs, s) /\ AdmissionStage(w, jobs, t)
  <2>1. PICK k \in DOMAIN Vis!Admission(w, jobs) :
          /\ s = Vis!Admission(w, jobs)[k]
          /\ \A j \in 1..(k - 1) : Vis!Done(jobs, Vis!Admission(w, jobs)[j])
    BY <1>5 DEF AdmissionStage
  <2>2. PICK l \in DOMAIN Vis!Admission(w, jobs) :
          /\ t = Vis!Admission(w, jobs)[l]
          /\ \A j \in 1..(l - 1) : Vis!Done(jobs, Vis!Admission(w, jobs)[j])
    BY <1>5 DEF AdmissionStage
  <2>3. DOMAIN Vis!Admission(w, jobs) \subseteq Nat \ {0}
    BY AdmissionShape
  <2>4. k = l \/ k \in 1..(l - 1) \/ l \in 1..(k - 1)
    BY <2>3
  <2> QED
    BY <2>1, <2>2, <2>4
<1> QED
  BY <1>1, <1>2, <1>3, <1>4, <1>5 DEF Ready

LEMMA InvOrderly == ASSUME VisInv, NEW w \in Flows, NEW jobs, jobs = job[w] PROVE Orderly(w, jobs)
BY DEF VisInv, Stages, Verdicts, Orderly

LEMMA InvCandidateFirst == ASSUME PlanOK, VisInv PROVE Vis!CandidateFirst
<1> SUFFICES ASSUME NEW w \in Flows
             PROVE  /\ Vis!Cardinality({s \in Vis!Jobs(w) : job[w][s] # "succeeded"}) <= 1
                    /\ \A u, v \in Vis!Unit :
                         /\ v < u
                         /\ <<"generate", u>> \in Vis!Jobs(w)
                         => /\ \/ Vis!Reviewed(job[w], v)
                               \/ \E x \in Vis!Unit : Vis!ItemOf(x) = Vis!ItemOf(v) /\ x < v /\ <<w, x>> \in usable
                            /\ Vis!ItemOf(u) = Vis!ItemOf(v) /\ v \notin Vis!Mates(u) => <<w, v>> \notin usable
  BY WorkflowsAre DEF Vis!CandidateFirst
<1>1. PICK jobs : jobs = job[w]
  OBVIOUS
<1>2. Orderly(w, jobs)
  BY <1>1, InvOrderly
<1>3. Vis!Cardinality({s \in Vis!Jobs(w) : job[w][s] # "succeeded"}) <= 1
  <2> DEFINE S == {s \in DOMAIN jobs : jobs[s] # "succeeded"}
  <2>1. \A s, t \in S : s = t
    BY <1>2, OneOpenStage DEF Vis!Done
  <2>2. Cardinality(S) <= 1
    <3> HIDE DEF S
    <3>1. CASE S = {}
      <4>1. Cardinality({}) = 0
        BY FS_EmptySet
      <4> QED
        BY <3>1, <4>1
    <3>2. CASE S # {}
      <4>1. PICK s : S = {s}
        BY <2>1, <3>2
      <4>2. Cardinality({s}) = 1
        BY FS_Singleton
      <4> QED
        BY <4>1, <4>2
    <3> QED
      BY <3>1, <3>2
  <2> QED
    BY <1>1, <2>2, SameCardinality DEF Vis!Jobs
<1>4. ASSUME NEW u \in Vis!Unit, NEW v \in Vis!Unit, v < u, <<"generate", u>> \in DOMAIN jobs
      PROVE  /\ \/ Vis!Reviewed(jobs, v)
                \/ \E x \in Vis!Unit : Vis!ItemOf(x) = Vis!ItemOf(v) /\ x < v /\ <<w, x>> \in usable
             /\ Vis!ItemOf(u) = Vis!ItemOf(v) /\ v \notin Vis!Mates(u) => <<w, v>> \notin usable
  <2>1. PICK a : a = "generate"
    OBVIOUS
  <2>2. Ready(w, jobs, <<a, u>>) /\ a \notin {"plan", "pack", "encode", "features", "experience"}
    BY <1>2, <1>4, <2>1 DEF Orderly
  <2>3. Begun(w, jobs, u)
    BY <2>2, ReviewIsChain
  <2>4. \/ Vis!Reviewed(jobs, v)
        \/ Vis!ItemOf(v) \in Vis!AcceptedItems(w, jobs)
    BY <1>4, <2>3, BegunInOrder
  <2>5. \/ Vis!Reviewed(jobs, v)
        \/ \E x \in Vis!Unit : Vis!ItemOf(x) = Vis!ItemOf(v) /\ x < v /\ <<w, x>> \in usable
    BY <1>2, <2>4, SuppliedBefore
  <2>6. Vis!ItemOf(u) = Vis!ItemOf(v) /\ v \notin Vis!Mates(u) => <<w, v>> \notin usable
    BY <1>4, <2>3 DEF Begun, Vis!Visited
  <2> QED
    BY <2>5, <2>6
<1> QED
  BY <1>1, <1>3, <1>4 DEF Vis!Jobs

(* The first usable candidate of an item is the one that is selected.      *)
FirstUsable(w, i) ==
  {u \in Vis!Unit : /\ Vis!ItemOf(u) = i /\ <<w, u>> \in usable
                    /\ \A v \in Vis!Unit : Vis!ItemOf(v) = i /\ v < u => <<w, v>> \notin usable}

LEMMA FirstSelected ==
  ASSUME PlanOK, NEW w, NEW jobs, Orderly(w, jobs), NEW i \in Vis!AcceptedItems(w, jobs)
  PROVE  FirstUsable(w, i) = {Vis!Least(Vis!Accepted(w, jobs, i))}
<1> DEFINE x == Vis!Least(Vis!Accepted(w, jobs, i))
<1>1. x \in Vis!Accepted(w, jobs, i) /\ \A u \in Vis!Accepted(w, jobs, i) : x <= u
  BY SelectedFrom
<1> HIDE DEF x
<1>2. x \in Vis!Unit /\ Vis!ItemOf(x) = i /\ <<w, x>> \in usable /\ \A y \in Vis!Mates(x) : Vis!Reviewed(jobs, y)
  BY <1>1 DEF Vis!Accepted
<1>3. ASSUME NEW v \in Vis!Unit, Vis!ItemOf(v) = i, v < x PROVE <<w, v>> \notin usable
  <2> SUFFICES ASSUME <<w, v>> \in usable PROVE FALSE
    OBVIOUS
  <2>1. Vis!Visited(w, jobs, x)
    BY <1>2, OrderlyReview, MatesAlike DEF Begun
  <2>2. v \in Vis!Mates(x)
    BY <1>2, <1>3, <2>1 DEF Vis!Visited
  <2>3. Vis!Mates(v) = Vis!Mates(x)
    BY <1>2, <2>2, MatesAlike
  <2>4. v \in Vis!Accepted(w, jobs, i)
    BY <1>2, <1>3, <2>3 DEF Vis!Accepted
  <2> QED
    BY <1>1, <1>2, <1>3, <2>4, UnitsCount
<1>4. x \in FirstUsable(w, i)
  BY <1>2, <1>3 DEF FirstUsable
<1>5. ASSUME NEW y \in FirstUsable(w, i) PROVE y = x
  <2>1. y \in Vis!Unit /\ Vis!ItemOf(y) = i /\ <<w, y>> \in usable /\ ~(x < y)
    BY <1>2 DEF FirstUsable
  <2>2. ~(y < x)
    BY <1>3, <2>1
  <2> QED
    BY <1>2, <2>1, <2>2, UnitsCount
<1> QED
  BY <1>4, <1>5 DEF x

LEMMA MostOf ==
  ASSUME NEW n \in Nat, NEW S \in SUBSET (1..n), S # {} PROVE \E x \in S : \A y \in S : y <= x
<1> DEFINE B == {b \in Nat : \A y \in S : y <= b}
<1>1. n \in B /\ B \in SUBSET Nat
  OBVIOUS
<1>2. PICK b \in B : \A a \in B : b <= a
  BY <1>1, LeastOf
<1>3. b \in Nat /\ \A y \in S : y <= b
  BY <1>2
<1>4. b # 0
  <2>1. PICK y \in S : TRUE
    OBVIOUS
  <2>2. y \in 1..n /\ y <= b
    BY <1>3
  <2> QED
    BY <1>3, <2>2
<1>5. b \in S
  <2> SUFFICES ASSUME b \notin S PROVE FALSE
    OBVIOUS
  <2>1. b - 1 \in Nat
    BY <1>3, <1>4
  <2>2. ASSUME NEW y \in S PROVE y <= b - 1
    <3>1. y \in Nat /\ y # b /\ y <= b
      BY <1>3
    <3> QED
      BY <1>3, <3>1
  <2>3. b - 1 \in B
    BY <2>1, <2>2
  <2> HIDE DEF B
  <2> QED
    BY <1>2, <1>3, <2>3
<1> QED
  BY <1>3, <1>5

(* A pack takes no more items than it holds.                               *)
LEMMA PackHolds ==
  ASSUME PlanOK, NEW w, NEW jobs, Orderly(w, jobs), Admitted(w, jobs)
  PROVE  Cardinality(Vis!Selected(w, jobs)) <= PackLimit
<1> DEFINE A == Vis!AcceptedItems(w, jobs)
           B == Vis!Selected(w, jobs)
<1>1. IsFiniteSet(A) /\ Cardinality(B) \in Nat /\ Cardinality(B) <= Cardinality(A) /\ A \subseteq 1..Items
  BY SelectedFrom DEF Vis!AcceptedItems
<1>2. Cardinality(A) \in Nat
  BY <1>1, FS_CardinalityType
<1>3. Cardinality(A) <= PackLimit
  <2>1. CASE Exact
    <3>1. A = 1..Items
      BY <2>1 DEF Admitted
    <3>2. Cardinality(1..Items) = Items
      <4>1. 1 \in Int /\ Items \in Int /\ Items - 1 + 1 = Items
        BY DEF PlanOK
      <4>2. Cardinality(1..Items) = IF 1 > Items THEN 0 ELSE Items - 1 + 1
        BY <4>1, FS_Interval
      <4> QED
        BY <4>2 DEF PlanOK
    <3> HIDE DEF A
    <3> QED
      BY <2>1, <3>1, <3>2 DEF PlanOK
  <2>2. CASE A = {}
    <3>1. Cardinality({}) = 0
      BY FS_EmptySet
    <3> HIDE DEF A
    <3> QED
      BY <2>2, <3>1 DEF PlanOK
  <2>3. CASE ~Exact /\ A # {}
    <3>1. PICK i \in A : \A k \in A : k <= i
      <4> HIDE DEF A
      <4> QED
        BY <1>1, <2>3, MostOf DEF PlanOK
    <3>2. PICK x \in Vis!Accepted(w, jobs, i) : TRUE
      BY <3>1 DEF Vis!AcceptedItems
    <3>3. x \in Vis!Unit /\ Vis!ItemOf(x) = i /\ Vis!Reviewed(jobs, x)
      BY MatesAlike DEF Vis!Accepted
    <3>4. Vis!Visited(w, jobs, x)
      BY <3>3, OrderlyReview DEF Begun
    <3> DEFINE T == {k \in A : k < i}
    <3>5. Cardinality(T) < PackLimit
      BY <2>3, <3>3, <3>4, SameCardinality DEF Vis!Visited
    <3> HIDE DEF A
    <3>6. A = T \cup {i} /\ i \notin T /\ T \subseteq A
      <4>1. A \subseteq Nat
        BY <1>1
      <4>2. \A k \in A : k < i \/ k = i
        BY <3>1, <4>1
      <4>3. i \in A /\ ~(i < i)
        BY <3>1, <4>1
      <4> QED
        BY <4>2, <4>3
    <3> HIDE DEF T
    <3>7. IsFiniteSet(T)
      BY <1>1, <3>6, FS_Subset
    <3>8. Cardinality(T \cup {i}) = Cardinality(T) + 1 /\ Cardinality(T) \in Nat
      BY <3>6, <3>7, FS_AddElement, FS_CardinalityType
    <3>9. Cardinality(A) = Cardinality(T) + 1
      BY <3>6, <3>8
    <3> QED
      BY <3>5, <3>8, <3>9 DEF PlanOK
  <2> QED
    BY <2>1, <2>2, <2>3 DEF PlanOK
<1> HIDE DEF A, B
<1>4. Cardinality(B) <= PackLimit
  BY <1>1, <1>2, <1>3 DEF PlanOK
<1> QED
  BY <1>4 DEF B

LEMMA InvPackIsFirstUsable == ASSUME PlanOK, VisInv PROVE Vis!PackIsFirstUsable
<1>1. ASSUME NEW w \in Flows, flow[w].pack # {}
      PROVE  /\ flow[w].pack \subseteq UNION {FirstUsable(w, i) : i \in 1..Items}
             /\ Cardinality(flow[w].pack) <= PackLimit
             /\ Exact => \A i \in 1..Items : FirstUsable(w, i) \subseteq flow[w].pack /\ FirstUsable(w, i) # {}
  <2>1. PICK jobs : jobs = job[w]
    OBVIOUS
  <2>2. Orderly(w, jobs)
    BY <2>1, InvOrderly
  <2>3. Vis!Pack \in DOMAIN jobs /\ flow[w].pack = Vis!Selected(w, jobs)
    BY <1>1, <2>1 DEF VisInv, Packs
  <2>4. Admitted(w, jobs)
    BY <2>2, <2>3, PackAdmitted DEF Orderly
  <2>5. \A i \in Vis!AcceptedItems(w, jobs) :
           /\ FirstUsable(w, i) = {Vis!Least(Vis!Accepted(w, jobs, i))}
           /\ Vis!Least(Vis!Accepted(w, jobs, i)) \in Vis!Selected(w, jobs)
    BY <2>2, FirstSelected DEF Vis!Selected
  <2>6. flow[w].pack \subseteq UNION {FirstUsable(w, i) : i \in 1..Items}
    <3> SUFFICES ASSUME NEW u \in Vis!Selected(w, jobs) PROVE \E i \in 1..Items : u \in FirstUsable(w, i)
      BY <2>3
    <3>1. PICK i \in Vis!AcceptedItems(w, jobs) : u = Vis!Least(Vis!Accepted(w, jobs, i))
      BY DEF Vis!Selected
    <3>2. i \in 1..Items
      BY DEF Vis!AcceptedItems
    <3> QED
      BY <2>5, <3>1, <3>2
  <2>7. Cardinality(flow[w].pack) <= PackLimit
    BY <2>2, <2>3, <2>4, PackHolds
  <2>8. Exact => \A i \in 1..Items : FirstUsable(w, i) \subseteq flow[w].pack /\ FirstUsable(w, i) # {}
    BY <2>3, <2>4, <2>5 DEF Admitted
  <2> QED
    BY <2>6, <2>7, <2>8
<1> QED
  BY <1>1, WorkflowsAre, SameCardinality DEF Vis!PackIsFirstUsable, FirstUsable

(* However many coordinators, crashes and failures there are, a workflow    *)
(* has one stage at most that has not succeeded, and begins no image       *)
(* before every earlier one was reviewed or its item had one, whatever     *)
(* reading it acts on (VisualWorkflowCoordinator.tick).                    *)
THEOREM CandidateFirstCorrect == ASSUME PlanOK PROVE Vis!Spec => []Vis!CandidateFirst
<1>1. Vis!Init => VisInv
  BY VisStart
<1>2. VisInv /\ [Vis!Next]_(Vis!vars) => VisInv'
  BY VisStep
<1>3. VisInv => Vis!CandidateFirst
  BY InvCandidateFirst
<1> QED
  BY <1>1, <1>2, <1>3, PTL DEF Vis!Spec

(* The pack has the first usable image of an item and no other, holds what *)
(* fits, and misses no item of exact material: what a coordinator counted  *)
(* when it created the stage is what the ledger says ever after.           *)
THEOREM PackCorrect == ASSUME PlanOK PROVE Vis!Spec => []Vis!PackIsFirstUsable
<1>1. Vis!Init => VisInv
  BY VisStart
<1>2. VisInv /\ [Vis!Next]_(Vis!vars) => VisInv'
  BY VisStep
<1>3. VisInv => Vis!PackIsFirstUsable
  BY InvPackIsFirstUsable
<1> QED
  BY <1>1, <1>2, <1>3, PTL DEF Vis!Spec

-----------------------------------------------------------------------------
(* The images of the specialist are bound to slots.                        *)

Flux == INSTANCE FluxSpecialist

SlotsOK ==
  /\ IsFiniteSet(Flux!Slots) /\ Flux!Slots \subseteq Int
  /\ \A s \in Flux!Slots : Concept[s] \in Flux!Concepts

LEMMA SameCount == \A S : Flux!Cardinality(S) = Cardinality(S)
BY DEF Flux!Cardinality, Cardinality

(* Images of which none is counted twice, and their ranks: an image that   *)
(* is counted adds one to those before it.                                 *)
Counted(count, M) == /\ IsFiniteSet(M) /\ M \subseteq Int \X Int
                     /\ \A i \in M : count[i] \in {0, 1}

Ahead(M, i) == {j \in M : Flux!Precedes(j, i)}
Low(count, M, i) == Cardinality(Flux!Entries(count, Ahead(M, i)))
High(count, M, i) == Cardinality(Flux!Entries(count, Ahead(M, i) \cup {i}))

LEMMA EntriesOnce ==
  ASSUME NEW A, NEW count, IsFiniteSet(A), \A i \in A : count[i] \in {0, 1}
  PROVE  /\ Flux!Entries(count, A) = {i \in A : count[i] = 1} \X {1}
         /\ IsFiniteSet(Flux!Entries(count, A)) /\ Cardinality(Flux!Entries(count, A)) \in Nat
         /\ Cardinality(Flux!Entries(count, A)) = Cardinality({i \in A : count[i] = 1})
<1> DEFINE once == {i \in A : count[i] = 1}
<1>1. Flux!Entries(count, A) = once \X {1}
  <2>1. \A i \in A : 1..count[i] = IF count[i] = 1 THEN {1} ELSE {}
    <3>1. 1..0 = {} /\ 1..1 = {1}
      OBVIOUS
    <3> QED
      BY <3>1
  <2>2. ASSUME NEW x, x \in Flux!Entries(count, A) PROVE x \in once \X {1}
    <3>1. PICK i \in A : x \in {i} \X (1..count[i])
      BY <2>2 DEF Flux!Entries
    <3> QED
      BY <2>1, <3>1
  <2>3. ASSUME NEW x, x \in once \X {1} PROVE x \in Flux!Entries(count, A)
    <3>1. PICK i \in A : count[i] = 1 /\ x \in {i} \X (1..count[i])
      BY <2>1, <2>3
    <3> QED
      BY <3>1 DEF Flux!Entries
  <2> QED
    BY <2>2, <2>3
<1>2. IsFiniteSet(once) /\ Cardinality(once) \in Nat
  BY FS_Subset, FS_CardinalityType
<1> HIDE DEF once
<1>3. IsFiniteSet({1}) /\ Cardinality({1}) = 1
  BY FS_Singleton
<1>4. IsFiniteSet(once \X {1}) /\ Cardinality(once \X {1}) = Cardinality(once) * Cardinality({1})
  BY <1>2, <1>3, FS_Product
<1>5. Cardinality(once \X {1}) = Cardinality(once)
  BY <1>2, <1>3, <1>4
<1> QED
  BY <1>1, <1>2, <1>4, <1>5 DEF once

LEMMA InOrder ==
  ASSUME NEW i \in Int \X Int, NEW j \in Int \X Int
  PROVE  /\ ~Flux!Precedes(i, i)
         /\ i = j \/ Flux!Precedes(i, j) \/ Flux!Precedes(j, i)
         /\ \A k \in Int \X Int : Flux!Precedes(i, j) /\ Flux!Precedes(j, k) => Flux!Precedes(i, k)
<1>1. i = <<i[1], i[2]>> /\ j = <<j[1], j[2]>> /\ i[1] \in Int /\ i[2] \in Int /\ j[1] \in Int /\ j[2] \in Int
  OBVIOUS
<1>2. i = j \/ Flux!Precedes(i, j) \/ Flux!Precedes(j, i)
  BY <1>1 DEF Flux!Precedes
<1>3. ASSUME NEW k \in Int \X Int, Flux!Precedes(i, j), Flux!Precedes(j, k) PROVE Flux!Precedes(i, k)
  <2>1. k[1] \in Int /\ k[2] \in Int
    OBVIOUS
  <2> QED
    BY <1>1, <1>3, <2>1 DEF Flux!Precedes
<1> QED
  BY <1>1, <1>2, <1>3 DEF Flux!Precedes

LEMMA RankStep ==
  ASSUME NEW count, NEW M, Counted(count, M), NEW i \in M
  PROVE  /\ Low(count, M, i) \in Nat /\ High(count, M, i) = Low(count, M, i) + count[i]
         /\ IsFiniteSet(Ahead(M, i) \cup {i}) /\ Ahead(M, i) \cup {i} \subseteq M
<1> DEFINE A == Ahead(M, i)
<1>1. A \subseteq M /\ A \cup {i} \subseteq M /\ i \notin A
  BY InOrder DEF Ahead, Counted
<1> HIDE DEF A
<1>2. IsFiniteSet(A) /\ IsFiniteSet(A \cup {i})
  BY <1>1, FS_Subset DEF Counted
<1>3. (\A j \in A : count[j] \in {0, 1}) /\ (\A j \in A \cup {i} : count[j] \in {0, 1}) /\ count[i] \in {0, 1}
  BY <1>1 DEF Counted
<1> DEFINE lo == {j \in A : count[j] = 1}
           hi == {j \in A \cup {i} : count[j] = 1}
<1>4. /\ Cardinality(Flux!Entries(count, A)) = Cardinality(lo) /\ Cardinality(Flux!Entries(count, A)) \in Nat
      /\ Cardinality(Flux!Entries(count, A \cup {i})) = Cardinality(hi)
  BY <1>2, <1>3, EntriesOnce
<1>5. hi = IF count[i] = 1 THEN lo \cup {i} ELSE lo
  OBVIOUS
<1>6. i \notin lo /\ IsFiniteSet(lo)
  BY <1>1, <1>2, FS_Subset
<1> HIDE DEF lo, hi
<1>7. Cardinality(lo \cup {i}) = Cardinality(lo) + 1
  BY <1>6, FS_AddElement
<1>8. Cardinality(hi) = Cardinality(lo) + count[i]
  BY <1>3, <1>4, <1>5, <1>7
<1> QED
  BY <1>1, <1>2, <1>4, <1>8 DEF Low, High, A

LEMMA RankGrows ==
  ASSUME NEW count, NEW M, Counted(count, M), NEW i \in M, NEW j \in M, Flux!Precedes(i, j), count[j] = 1
  PROVE  High(count, M, i) < High(count, M, j)
<1> DEFINE A == Ahead(M, i) \cup {i}
           B == Ahead(M, j)
<1>1. A \subseteq B
  BY InOrder DEF Ahead, Counted
<1>2. B \subseteq M /\ IsFiniteSet(B)
  BY FS_Subset DEF Ahead, Counted
<1> HIDE DEF A, B
<1>3. IsFiniteSet(A) /\ (\A k \in A : count[k] \in {0, 1}) /\ (\A k \in B : count[k] \in {0, 1})
  BY <1>1, <1>2, FS_Subset DEF Counted
<1> DEFINE a == {k \in A : count[k] = 1}
           b == {k \in B : count[k] = 1}
<1>4. Cardinality(Flux!Entries(count, A)) = Cardinality(a) /\ Cardinality(Flux!Entries(count, B)) = Cardinality(b)
  BY <1>2, <1>3, EntriesOnce
<1>5. a \subseteq b /\ IsFiniteSet(b)
  BY <1>1, <1>2, FS_Subset
<1> HIDE DEF a, b
<1>6. Cardinality(a) <= Cardinality(b)
  BY <1>5, FS_Subset
<1>7. High(count, M, i) = Cardinality(a) /\ Low(count, M, j) = Cardinality(b)
  BY <1>4 DEF High, Low, A, B
<1>8. High(count, M, j) = Low(count, M, j) + 1 /\ Low(count, M, j) \in Nat
      /\ High(count, M, i) \in Int
  <2>1. Low(count, M, i) \in Nat /\ High(count, M, i) = Low(count, M, i) + count[i] /\ count[i] \in {0, 1}
    BY RankStep DEF Counted
  <2>2. Low(count, M, j) \in Nat /\ High(count, M, j) = Low(count, M, j) + count[j]
    BY RankStep
  <2> QED
    BY <2>1, <2>2
<1> QED
  BY <1>6, <1>7, <1>8

(* Every entry has its image: there are as many ranks as entries, and no   *)
(* two images that are counted have the same.                              *)
LEMMA RanksCover ==
  ASSUME NEW count, NEW M, Counted(count, M), NEW n \in 1..Cardinality(Flux!Entries(count, M))
  PROVE  \E i \in M : Low(count, M, i) < n /\ n <= High(count, M, i)
<1> DEFINE R == {i \in M : count[i] = 1}
           m == Cardinality(R)
<1>1. /\ Cardinality(Flux!Entries(count, M)) = m /\ m \in Nat /\ IsFiniteSet(R)
  BY EntriesOnce, FS_Subset DEF Counted
<1>2. ASSUME NEW i \in R
      PROVE  /\ High(count, M, i) \in 1..m /\ High(count, M, i) = Low(count, M, i) + 1 /\ Low(count, M, i) \in Nat
  <2> DEFINE A == Ahead(M, i) \cup {i}
             a == {k \in A : count[k] = 1}
  <2>1. /\ High(count, M, i) = Low(count, M, i) + count[i] /\ Low(count, M, i) \in Nat /\ count[i] = 1
        /\ IsFiniteSet(A) /\ A \subseteq M
    BY RankStep
  <2>2. High(count, M, i) = Cardinality(a)
    BY <2>1, EntriesOnce DEF High, Counted
  <2>3. a \subseteq R
    BY <2>1
  <2> HIDE DEF a, A, R
  <2>4. Cardinality(a) <= Cardinality(R)
    BY <1>1, <2>3, FS_Subset
  <2> QED
    BY <1>1, <2>1, <2>2, <2>4
<1>3. ASSUME NEW i \in R, NEW j \in R, i # j PROVE High(count, M, i) # High(count, M, j)
  <2>1. Flux!Precedes(i, j) \/ Flux!Precedes(j, i)
    BY <1>3, InOrder DEF Counted
  <2>2. High(count, M, i) < High(count, M, j) \/ High(count, M, j) < High(count, M, i)
    BY <2>1, RankGrows
  <2>3. High(count, M, i) \in Int /\ High(count, M, j) \in Int
    BY <1>1, <1>2
  <2> QED
    BY <2>2, <2>3
<1>4. R \subseteq M
  OBVIOUS
<1> HIDE DEF R
<1>5. \E i \in R : High(count, M, i) = n
  <2> SUFFICES ASSUME \A i \in R : High(count, M, i) # n PROVE FALSE
    OBVIOUS
  <2> DEFINE f == [i \in R |-> High(count, M, i)]
             T == (1..m) \ {n}
  <2>1. f \in [R -> T]
    BY <1>2
  <2>2. IsFiniteSet(1..m) /\ Cardinality(1..m) = m
    BY <1>1, FS_Interval
  <2>3. IsFiniteSet(T) /\ Cardinality(T) = m - 1
    BY <1>1, <2>2, FS_RemoveElement
  <2>4. Cardinality(T) < Cardinality(R)
    BY <1>1, <2>3
  <2>5. \A i, j \in R : i # j => f[i] # f[j]
    BY <1>3
  <2> HIDE DEF f, T
  <2> QED
    BY <1>1, <2>1, <2>3, <2>4, <2>5, FS_PigeonHole
<1>6. PICK i \in R : High(count, M, i) = n
  BY <1>5
<1>7. Low(count, M, i) < n /\ n <= High(count, M, i)
  BY <1>1, <1>2, <1>6
<1> QED
  BY <1>4, <1>7

(* The slots a concept misses are numbered in order.                       *)
Nth(s) == Cardinality({t \in Flux!MissingOf(Concept[s]) : t <= s})

LEMMA NthInOrder ==
  ASSUME SlotsOK, NEW s \in Flux!Missing
  PROVE  /\ Nth(s) \in 1..Cardinality(Flux!MissingOf(Concept[s]))
         /\ \A t \in Flux!MissingOf(Concept[s]) : s < t => Nth(s) < Nth(t)
<1> DEFINE F == Flux!MissingOf(Concept[s])
           S == {x \in F : x <= s}
<1>1. /\ F \subseteq Flux!Slots /\ F \subseteq Int /\ s \in F /\ s \in S
      /\ \A t \in F : Flux!MissingOf(Concept[t]) = F
  <2>1. F \subseteq Flux!Slots /\ s \in F
    BY DEF Flux!MissingOf, Flux!Missing
  <2>2. Flux!Slots \subseteq Int
    BY DEF SlotsOK
  <2>3. \A t \in F : Flux!MissingOf(Concept[t]) = F
    BY DEF Flux!MissingOf
  <2>4. s \in S
    <3>1. s \in Int
      BY <2>1, <2>2
    <3>2. s <= s
      BY <3>1
    <3> HIDE DEF F
    <3> QED
      BY <2>1, <3>2
  <2> QED
    BY <2>1, <2>2, <2>3, <2>4
<1>2. IsFiniteSet(F) /\ Cardinality(F) \in Nat
  BY <1>1, FS_Subset, FS_CardinalityType DEF SlotsOK
<1>3. /\ Nth(s) = Cardinality(S) /\ S \subseteq F
  BY DEF Nth
<1> HIDE DEF F, S
<1>4. /\ IsFiniteSet(S) /\ Cardinality(S) \in Nat /\ Cardinality(S) <= Cardinality(F)
  BY <1>2, <1>3, FS_Subset, FS_CardinalityType
<1>5. Cardinality(S) # 0
  BY <1>1, <1>4, FS_EmptySet
<1>6. ASSUME NEW t \in F, s < t PROVE Nth(s) < Nth(t)
  <2> DEFINE T == {x \in F : x <= t}
  <2>1. Nth(t) = Cardinality(T) /\ T \subseteq F
    BY <1>1 DEF Nth
  <2>2. S \subseteq T /\ t \in T /\ t \notin S
    <3>1. s \in Int /\ t \in Int /\ t \in F /\ F \subseteq Int /\ s < t
      BY <1>1, <1>6
    <3>2. \A x \in Int : x <= s => x <= t
      BY <3>1
    <3>3. S \subseteq T
      BY <3>1, <3>2 DEF S
    <3>4. t \notin S
      BY <3>1 DEF S
    <3> QED
      BY <3>1, <3>3, <3>4
  <2> HIDE DEF T
  <2>3. IsFiniteSet(T) /\ Cardinality(T) \in Nat
    BY <1>2, <2>1, FS_Subset, FS_CardinalityType
  <2>4. Cardinality(S) <= Cardinality(T) /\ (Cardinality(T) = Cardinality(S) => T = S)
    BY <2>2, <2>3, FS_Subset
  <2>5. T # S
    BY <2>2
  <2> QED
    BY <1>3, <1>4, <2>1, <2>3, <2>4, <2>5
<1> QED
  BY <1>2, <1>3, <1>4, <1>5, <1>6 DEF F

(* Different empty slots of a concept are bound to different images, once  *)
(* the ingest has found each image once and as many as slots are empty.    *)
LEMMA BoundApart ==
  ASSUME SlotsOK, Flux!EachOnce, stage.rows \in [Flux!Image -> Nat],
         NEW s \in Flux!Missing, NEW t \in Flux!Missing, s # t, Concept[s] = Concept[t],
         Flux!Occurrences(Concept[s]) = Flux!Cardinality(Flux!MissingOf(Concept[s]))
  PROVE  Flux!BoundTo(s) # Flux!BoundTo(t)
<1> DEFINE M == Flux!ImagesOf(Concept[s])
           count == stage.rows
<1>1. Counted(count, M)
  <2> DEFINE n == Cardinality(Flux!Slots)
  <2>1. n \in Nat
    BY FS_CardinalityType DEF SlotsOK
  <2>2. Flux!Image = (1..n) \X (0..n - 1)
    BY SameCount DEF Flux!Image
  <2> HIDE DEF n
  <2>3. IsFiniteSet(1..n) /\ IsFiniteSet(0..n - 1)
    BY <2>1, FS_Interval
  <2>4. IsFiniteSet(Flux!Image) /\ Flux!Image \subseteq Int \X Int
    BY <2>1, <2>2, <2>3, FS_Product
  <2>5. M \subseteq Flux!Image
    BY DEF Flux!ImagesOf, Flux!Planned
  <2>6. \A i \in Flux!Image : count[i] \in {0, 1}
    BY DEF Flux!EachOnce
  <2> HIDE DEF M, count
  <2>7. IsFiniteSet(M)
    BY <2>4, <2>5, FS_Subset
  <2> QED
    BY <2>4, <2>5, <2>6, <2>7 DEF Counted
<1>2. Cardinality(Flux!Entries(count, M)) = Cardinality(Flux!MissingOf(Concept[s]))
  BY SameCount DEF Flux!Occurrences
<1>3. ASSUME NEW x \in Flux!Missing, Concept[x] = Concept[s]
      PROVE  /\ Flux!BoundTo(x) \in M /\ Low(count, M, Flux!BoundTo(x)) < Nth(x)
             /\ Nth(x) <= High(count, M, Flux!BoundTo(x))
  <2>1. Flux!BoundTo(x) = CHOOSE i \in M : Low(count, M, i) < Nth(x) /\ Nth(x) <= High(count, M, i)
    BY <1>3, SameCount DEF Flux!BoundTo, Low, High, Ahead, Nth
  <2>2. Nth(x) \in 1..Cardinality(Flux!Entries(count, M))
    BY <1>2, <1>3, NthInOrder
  <2> HIDE DEF M, count
  <2>3. \E i \in M : Low(count, M, i) < Nth(x) /\ Nth(x) <= High(count, M, i)
    BY <1>1, <2>2, RanksCover
  <2> QED
    BY <2>1, <2>3
<1>4. ASSUME NEW x \in Flux!Missing, Concept[x] = Concept[s]
      PROVE  Nth(x) = High(count, M, Flux!BoundTo(x)) /\ Nth(x) \in Int
  <2> DEFINE i == Flux!BoundTo(x)
  <2>1. i \in M /\ Low(count, M, i) < Nth(x) /\ Nth(x) <= High(count, M, i)
    BY <1>3, <1>4
  <2>2. Nth(x) \in Int
    <3>1. Nth(x) \in 1..Cardinality(Flux!MissingOf(Concept[x]))
      BY NthInOrder
    <3> QED
      BY <3>1
  <2> HIDE DEF i, M, count
  <2>3. Low(count, M, i) \in Nat /\ High(count, M, i) = Low(count, M, i) + count[i]
    BY <1>1, <2>1, RankStep
  <2>4. count[i] \in {0, 1}
    BY <1>1, <2>1 DEF Counted
  <2> QED
    BY <2>1, <2>2, <2>3, <2>4 DEF i
<1>5. Nth(s) # Nth(t)
  <2>1. s \in Int /\ t \in Int
    BY DEF SlotsOK, Flux!Missing
  <2>2. s \in Flux!MissingOf(Concept[t]) /\ t \in Flux!MissingOf(Concept[s])
    BY DEF Flux!MissingOf
  <2>3. Nth(s) < Nth(t) \/ Nth(t) < Nth(s)
    BY <2>1, <2>2, NthInOrder
  <2>4. Nth(s) \in Int /\ Nth(t) \in Int
    BY <1>4
  <2> QED
    BY <2>3, <2>4
<1> QED
  BY <1>4, <1>5

(* Of the slots of a concept that hold an image no two hold the same, and  *)
(* the images are of cycles up to the given one.                           *)
HeldApart(book) ==
  \A s, t \in Flux!Slots : book[s] # Null /\ s # t /\ book[s] = book[t] => Concept[s] # Concept[t]
UpTo(book, cycle) == \A s \in Flux!Slots : book[s] # Null => book[s][1] \in Int /\ book[s][1] <= cycle

(* The decisions hold images of past cycles, an image at most as often as  *)
(* the cap lets it.                                                        *)
DecidedOK ==
  /\ DOMAIN decisions = Flux!Slots
  /\ HeldApart(decisions) /\ UpTo(decisions, ctl.cycle - 1)
  /\ \A s \in Flux!Slots : decisions[s] # Null => Cardinality(Flux!Uses(decisions, decisions[s])) <= Cap

(* Every slot the plan is for has a brief, for as long as it is carried    *)
(* out.                                                                    *)
BriefedOK ==
  ctl.phase \in {"start_generation", "wait_generation", "transfer", "review"} =>
    \A s \in Flux!Residual : \E b \in DOMAIN plan : Concept[s] \in plan[b].ids

(* What the ingest has found holds until the reviews are in.               *)
StagedOK ==
  ctl.phase = "review" =>
    /\ stage.rows \in [Flux!Image -> Nat]
    /\ stage.at # "copied" => Flux!EachOnce /\ Flux!ExactlyTheNeeds
    /\ stage.at = "judged" =>
          DOMAIN stage.judged = Flux!Slots /\ HeldApart(stage.judged) /\ UpTo(stage.judged, ctl.cycle)

FluxInv ==
  /\ DOMAIN ctl = {"phase", "cycle", "errors", "up", "module"} /\ ctl.cycle \in Int
  /\ ctl.phase = "wait_review" => ctl.cycle = 0
  /\ DOMAIN stage = {"at", "rows", "pixels", "judged"}
  /\ rows \in [Flux!Image -> Nat]
  /\ DecidedOK /\ BriefedOK /\ StagedOK

Working == {"start_generation", "wait_generation", "transfer", "review"}

(* The decisions stay, and the plan if it is carried out.                  *)
LEMMA FluxGoesOn ==
  ASSUME FluxInv, UNCHANGED decisions, DOMAIN ctl' = DOMAIN ctl, DOMAIN stage' = DOMAIN stage,
         ctl'.cycle = ctl.cycle, ctl'.phase = "wait_review" => ctl.phase = "wait_review",
         ctl'.phase \in Working => ctl.phase \in Working /\ UNCHANGED plan,
         rows' \in [Flux!Image -> Nat], StagedOK'
  PROVE  FluxInv'
<1>1. DecidedOK'
  BY DEF FluxInv, DecidedOK, HeldApart, UpTo, Flux!Uses
<1>2. BriefedOK'
  BY DEF FluxInv, BriefedOK, Working, Flux!Residual, Flux!Missing
<1> QED
  BY <1>1, <1>2 DEF FluxInv, Flux!Image

(* A step in which the controller stays in its phase, or leaves the review *)
(* alone.                                                                  *)
LEMMA FluxStays ==
  ASSUME FluxInv, UNCHANGED <<decisions, plan, stage>>, DOMAIN ctl' = DOMAIN ctl,
         ctl'.cycle = ctl.cycle, ctl'.phase = ctl.phase, rows' \in [Flux!Image -> Nat]
  PROVE  FluxInv'
<1>1. StagedOK'
  <2>1. (Flux!EachOnce => Flux!EachOnce') /\ (Flux!ExactlyTheNeeds => Flux!ExactlyTheNeeds')
    BY DEF Flux!EachOnce, Flux!Image, Flux!ExactlyTheNeeds, Flux!MissingOf, Flux!Missing, Flux!Occurrences,
       Flux!Entries, Flux!ImagesOf, Flux!Planned, Flux!Covers
  <2> QED
    BY <2>1 DEF FluxInv, StagedOK, HeldApart, UpTo, Flux!Image
<1> QED
  BY <1>1, FluxGoesOn

LEMMA FluxMovesOn ==
  ASSUME FluxInv, UNCHANGED decisions, DOMAIN stage' = DOMAIN stage, rows' \in [Flux!Image -> Nat],
         NEW next \in {"start_generation", "wait_generation", "transfer", "complete", "done"},
         next \in Working => ctl.phase \in Working /\ UNCHANGED plan, Flux!Phase(next)
  PROVE  FluxInv'
<1>1. DOMAIN ctl' = DOMAIN ctl /\ ctl'.cycle = ctl.cycle /\ ctl'.phase = next
  BY DEF FluxInv, Flux!Phase
<1>2. StagedOK'
  BY <1>1 DEF StagedOK
<1> QED
  BY <1>1, <1>2, FluxGoesOn

LEMMA FluxFails ==
  ASSUME FluxInv, Flux!Fails PROVE DOMAIN ctl' = DOMAIN ctl /\ ctl'.cycle = ctl.cycle /\ ctl'.phase = ctl.phase
BY DEF FluxInv, Flux!Fails

LEMMA PlanStep ==
  ASSUME FluxInv, SlotsOK, Flux!Plan PROVE FluxInv'
<1>1. DOMAIN ctl' = DOMAIN ctl /\ ctl'.cycle = ctl.cycle /\ ctl'.phase = "start_generation"
  BY DEF FluxInv, Flux!Plan, Flux!Phase
<1>2. UNCHANGED decisions /\ rows' \in [Flux!Image -> Nat] /\ DOMAIN stage' = DOMAIN stage
  BY DEF FluxInv, Flux!Plan, Flux!NoStage
<1>3. ASSUME NEW s \in Flux!Residual PROVE \E b \in DOMAIN plan' : Concept[s] \in plan'[b].ids
  <2> DEFINE c == Concept[s]
             W == {x \in Flux!Residual : Concept[x] = c}
  <2>1. c \in Flux!Concepts
    BY DEF SlotsOK, Flux!Residual, Flux!Missing
  <2>2. Flux!Cardinality(Flux!Assigned(plan', c)) = Flux!Cardinality(W)
    BY <2>1 DEF Flux!Plan, Flux!Plans
  <2>3. IsFiniteSet(W) /\ s \in W
    <3>1. W \subseteq Flux!Slots
      BY DEF Flux!Residual, Flux!Missing
    <3> QED
      BY <3>1, FS_Subset DEF SlotsOK
  <2> HIDE DEF W
  <2>4. Cardinality(W) # 0
    BY <2>3, FS_EmptySet
  <2>5. SUFFICES ASSUME ~\E b \in DOMAIN plan' : c \in plan'[b].ids PROVE FALSE
    OBVIOUS
  <2>6. Flux!Assigned(plan', c) = {}
    <3>1. {b \in DOMAIN plan' : c \in plan'[b].ids} = {}
      BY <2>5
    <3> QED
      BY <3>1 DEF Flux!Assigned, Flux!Entries
  <2> QED
    BY <2>2, <2>4, <2>6, SameCount, FS_EmptySet
<1>4. BriefedOK'
  BY <1>2, <1>3 DEF BriefedOK, Flux!Residual, Flux!Missing
<1>5. StagedOK'
  BY <1>1 DEF StagedOK
<1>6. DecidedOK'
  BY <1>1, <1>2 DEF FluxInv, DecidedOK, HeldApart, UpTo, Flux!Uses
<1> QED
  BY <1>1, <1>2, <1>4, <1>5, <1>6 DEF FluxInv, Flux!Image

LEMMA WaitReviewStep ==
  ASSUME FluxInv, Flux!WaitReview PROVE FluxInv'
<1>1. /\ DOMAIN ctl' = DOMAIN ctl /\ ctl'.cycle = 1 /\ ctl'.phase = "plan" /\ ctl.cycle = 0
      /\ UNCHANGED <<decisions, plan, rows, stage>>
  BY DEF FluxInv, Flux!WaitReview, Flux!At
<1>2. UpTo(decisions', ctl'.cycle - 1)
  <2>1. ASSUME NEW s \in Flux!Slots, decisions[s] # Null PROVE decisions[s][1] \in Int /\ decisions[s][1] <= 0
    <3>1. decisions[s][1] \in Int /\ decisions[s][1] <= 0 - 1
      BY <1>1, <2>1 DEF FluxInv, DecidedOK, UpTo
    <3> QED
      BY <3>1
  <2> QED
    BY <1>1, <2>1 DEF UpTo
<1>3. DecidedOK'
  BY <1>1, <1>2 DEF FluxInv, DecidedOK, HeldApart, Flux!Uses
<1>4. BriefedOK' /\ StagedOK'
  BY <1>1 DEF BriefedOK, StagedOK
<1> QED
  BY <1>1, <1>3, <1>4 DEF FluxInv, Flux!Image

LEMMA TransferStep ==
  ASSUME FluxInv, Flux!Transfer PROVE FluxInv'
<1>1. /\ DOMAIN ctl' = DOMAIN ctl /\ ctl'.cycle = ctl.cycle /\ ctl'.phase = "review" /\ ctl.phase = "transfer"
      /\ UNCHANGED <<decisions, plan, rows>>
  BY DEF FluxInv, Flux!Transfer, Flux!At, Flux!Phase
<1>2. stage' = [at |-> "copied", rows |-> rows, pixels |-> pixels, judged |-> Null]
  BY DEF Flux!Transfer, Flux!NoStage
<1>3. StagedOK'
  BY <1>2 DEF FluxInv, StagedOK, Flux!Image
<1> QED
  BY <1>1, <1>2, <1>3, FluxGoesOn DEF FluxInv, Working

(* A step of the stage before the reviews are in: the ingest's findings    *)
(* hold.                                                                   *)
LEMMA StageStep ==
  ASSUME FluxInv, UNCHANGED <<decisions, plan, rows>>, ctl.phase = "review",
         DOMAIN ctl' = DOMAIN ctl, ctl'.cycle = ctl.cycle, ctl'.phase = ctl.phase,
         stage.at # "copied" \/ (Flux!EachOnce /\ Flux!ExactlyTheNeeds),
         NEW at \in {"committed", "ingested", "inspected", "queued", "prepared"}, stage' = [stage EXCEPT !.at = at]
  PROVE  FluxInv'
<1>1. stage'.at = at /\ stage'.rows = stage.rows /\ DOMAIN stage' = DOMAIN stage
  BY DEF FluxInv
<1>2. Flux!EachOnce /\ Flux!ExactlyTheNeeds /\ stage.rows \in [Flux!Image -> Nat]
  BY DEF FluxInv, StagedOK
<1>3. Flux!EachOnce' /\ Flux!ExactlyTheNeeds'
  BY <1>1, <1>2 DEF Flux!EachOnce, Flux!Image, Flux!ExactlyTheNeeds, Flux!MissingOf, Flux!Missing, Flux!Occurrences,
     Flux!Entries, Flux!ImagesOf, Flux!Planned, Flux!Covers
<1>4. StagedOK'
  BY <1>1, <1>2, <1>3 DEF StagedOK, Flux!Image
<1> QED
  BY <1>1, <1>4, FluxGoesOn DEF FluxInv

LEMMA JudgeStep ==
  ASSUME FluxInv, SlotsOK, Flux!Judge PROVE FluxInv'
<1>1. /\ UNCHANGED <<ctl, decisions, plan, rows>> /\ ctl.phase = "review" /\ stage.at = "prepared"
  BY DEF Flux!Judge, Flux!At
<1>2. PICK accepted \in SUBSET Flux!Residual :
        stage' = [stage EXCEPT !.at = "judged",
                    !.judged = [s \in Flux!Slots |-> IF s \in accepted THEN <<ctl.cycle, Flux!BoundTo(s)>>
                                                                       ELSE decisions[s]]]
  BY DEF Flux!Judge
<1> DEFINE judged == [s \in Flux!Slots |-> IF s \in accepted THEN <<ctl.cycle, Flux!BoundTo(s)>> ELSE decisions[s]]
<1>3. stage'.at = "judged" /\ stage'.rows = stage.rows /\ stage'.judged = judged /\ DOMAIN stage' = DOMAIN stage
  BY <1>2 DEF FluxInv
<1>4. Flux!EachOnce /\ Flux!ExactlyTheNeeds /\ stage.rows \in [Flux!Image -> Nat]
  BY <1>1 DEF FluxInv, StagedOK
<1>5. ASSUME NEW s \in accepted
      PROVE  /\ s \in Flux!Missing /\ s \in Flux!Slots /\ decisions[s] = Null
             /\ Flux!Occurrences(Concept[s]) = Flux!Cardinality(Flux!MissingOf(Concept[s]))
  <2>1. PICK b \in DOMAIN plan : Concept[s] \in plan[b].ids
    BY <1>1 DEF FluxInv, BriefedOK
  <2>2. Concept[s] \in UNION {plan[x].ids : x \in DOMAIN plan}
    BY <2>1
  <2>3. Flux!Occurrences(Concept[s]) = Flux!Cardinality(Flux!MissingOf(Concept[s]))
    BY <1>4, <2>2 DEF Flux!ExactlyTheNeeds
  <2> QED
    BY <2>3 DEF Flux!Residual, Flux!Missing
<1>6. /\ HeldApart(decisions) /\ UpTo(decisions, ctl.cycle - 1) /\ ctl.cycle \in Int
  BY DEF FluxInv, DecidedOK
<1>7. ASSUME NEW s \in Flux!Slots, judged[s] # Null
      PROVE  /\ judged[s][1] \in Int /\ judged[s][1] <= ctl.cycle
             /\ s \notin accepted => judged[s] = decisions[s] /\ judged[s][1] < ctl.cycle
  <2>1. CASE s \in accepted
    <3>1. judged[s][1] = ctl.cycle
      BY <2>1
    <3> QED
      BY <1>6, <2>1, <3>1
  <2>2. CASE s \notin accepted
    <3>1. judged[s] = decisions[s]
      BY <2>2
    <3>2. decisions[s][1] \in Int /\ decisions[s][1] <= ctl.cycle - 1
      BY <1>6, <1>7, <3>1 DEF UpTo
    <3> QED
      BY <1>6, <3>1, <3>2
  <2> QED
    BY <2>1, <2>2
<1>8. ASSUME NEW s \in Flux!Slots, NEW t \in Flux!Slots, judged[s] # Null, s # t, judged[s] = judged[t],
             Concept[s] = Concept[t]
      PROVE  FALSE
  <2>1. CASE s \in accepted /\ t \in accepted
    <3>1. Flux!BoundTo(s) # Flux!BoundTo(t)
      BY <1>4, <1>5, <1>8, <2>1, BoundApart
    <3>2. judged[s] = <<ctl.cycle, Flux!BoundTo(s)>> /\ judged[t] = <<ctl.cycle, Flux!BoundTo(t)>>
      BY <2>1
    <3> QED
      BY <1>8, <3>1, <3>2
  <2>2. CASE s \notin accepted /\ t \notin accepted
    <3>1. judged[s] = decisions[s] /\ judged[t] = decisions[t]
      BY <2>2
    <3> QED
      BY <1>6, <1>8, <3>1 DEF HeldApart
  <2>3. CASE s \in accepted /\ t \notin accepted
    <3>1. judged[s][1] = ctl.cycle /\ judged[t][1] \in Int /\ judged[t][1] < ctl.cycle
      BY <1>7, <1>8, <2>3
    <3> QED
      BY <1>6, <1>8, <3>1
  <2>4. CASE s \notin accepted /\ t \in accepted
    <3>1. judged[t][1] = ctl.cycle /\ judged[s][1] \in Int /\ judged[s][1] < ctl.cycle
      BY <1>7, <1>8, <2>4
    <3> QED
      BY <1>6, <1>8, <3>1
  <2> QED
    BY <2>1, <2>2, <2>3, <2>4
<1>9. DOMAIN judged = Flux!Slots /\ HeldApart(judged) /\ UpTo(judged, ctl.cycle)
  BY <1>7, <1>8 DEF HeldApart, UpTo
<1> HIDE DEF judged
<1>10. Flux!EachOnce' /\ Flux!ExactlyTheNeeds'
  BY <1>1, <1>3, <1>4 DEF Flux!EachOnce, Flux!Image, Flux!ExactlyTheNeeds, Flux!MissingOf, Flux!Missing, Flux!Occurrences,
     Flux!Entries, Flux!ImagesOf, Flux!Planned, Flux!Covers
<1>11. HeldApart(stage.judged)' /\ UpTo(stage.judged, ctl.cycle)'
  BY <1>1, <1>3, <1>9 DEF HeldApart, UpTo
<1>12. StagedOK'
  BY <1>3, <1>4, <1>9, <1>10, <1>11 DEF StagedOK, Flux!Image
<1> QED
  BY <1>1, <1>3, <1>12, FluxGoesOn DEF FluxInv

LEMMA ReviewStep ==
  ASSUME FluxInv, Flux!Review PROVE FluxInv'
<1>1. /\ DOMAIN ctl' = DOMAIN ctl /\ ctl'.phase = "plan" /\ ctl'.cycle = ctl.cycle + 1
      /\ UNCHANGED <<plan, rows, stage>> /\ ctl.phase = "review" /\ stage.at = "judged" /\ ctl.cycle \in Int
  BY DEF FluxInv, Flux!Review, Flux!At
<1>2. DOMAIN decisions' = Flux!Slots /\ Flux!WithinCap(stage.judged, decisions')
  BY DEF Flux!Review
<1>3. HeldApart(stage.judged) /\ UpTo(stage.judged, ctl.cycle)
  BY <1>1 DEF FluxInv, StagedOK
<1>4. ASSUME NEW s \in Flux!Slots, decisions'[s] # Null
      PROVE  /\ decisions'[s] = stage.judged[s]
             /\ Cardinality(Flux!Uses(decisions', decisions'[s])) <= Cap
  BY <1>2, <1>4, SameCount DEF Flux!WithinCap
<1>5. HeldApart(decisions)'
  BY <1>3, <1>4 DEF HeldApart
<1>6. UpTo(decisions, ctl.cycle - 1)'
  <2>1. ctl'.cycle - 1 = ctl.cycle
    BY <1>1
  <2> QED
    BY <1>3, <1>4, <2>1 DEF UpTo
<1>7. DecidedOK'
  BY <1>2, <1>4, <1>5, <1>6 DEF DecidedOK, Flux!Uses
<1>8. BriefedOK' /\ StagedOK'
  BY <1>1 DEF BriefedOK, StagedOK
<1> QED
  BY <1>1, <1>7, <1>8 DEF FluxInv, Flux!Image

LEMMA FluxStart ==
  ASSUME Flux!Init PROVE FluxInv
<1>1. /\ ctl = [phase |-> "wait_review", cycle |-> 0, errors |-> 0, up |-> TRUE, module |-> FALSE]
      /\ decisions = [s \in Flux!Slots |-> Null] /\ rows \in [Flux!Image -> Nat]
      /\ DOMAIN stage = {"at", "rows", "pixels", "judged"}
  BY DEF Flux!Init, Flux!NoStage
<1>2. DecidedOK
  BY <1>1 DEF DecidedOK, HeldApart, UpTo
<1>3. BriefedOK /\ StagedOK
  BY <1>1 DEF BriefedOK, StagedOK
<1> QED
  BY <1>1, <1>2, <1>3 DEF FluxInv

LEMMA FluxStep ==
  ASSUME FluxInv, SlotsOK, [Flux!Next]_(Flux!vars) PROVE FluxInv'
<1>0. DOMAIN ctl = {"phase", "cycle", "errors", "up", "module"} /\ rows \in [Flux!Image -> Nat]
  BY DEF FluxInv
<1>1. CASE Flux!CommandFails
  BY <1>0, <1>1, FluxFails, FluxStays DEF Flux!CommandFails
<1>2. CASE Flux!Crash \/ Flux!Restart
  <2>1. UNCHANGED <<decisions, plan, rows, stage>>
    BY <1>2 DEF Flux!Crash, Flux!Restart
  <2>2. DOMAIN ctl' = DOMAIN ctl /\ ctl'.cycle = ctl.cycle /\ ctl'.phase = ctl.phase
    BY <1>0, <1>2 DEF Flux!Crash, Flux!Restart
  <2> QED
    BY <1>0, <2>1, <2>2, FluxStays
<1>3. CASE Flux!WaitReview
  BY <1>3, WaitReviewStep
<1>4. CASE Flux!Plan
  BY <1>4, PlanStep
<1>5. CASE Flux!NothingToPlan
  BY <1>0, <1>5, FluxMovesOn DEF Flux!NothingToPlan, Working
<1>6. CASE Flux!StartGeneration
  <2>1. UNCHANGED <<decisions, plan, rows, stage>> /\ ctl.phase = "start_generation"
        /\ (Flux!Phase("wait_generation") \/ Flux!Fails)
    BY <1>6 DEF Flux!StartGeneration, Flux!At
  <2>2. CASE Flux!Phase("wait_generation")
    BY <1>0, <2>1, <2>2, FluxMovesOn DEF Working
  <2>3. CASE Flux!Fails
    BY <1>0, <2>1, <2>3, FluxFails, FluxStays
  <2> QED
    BY <2>1, <2>2, <2>3
<1>7. CASE Flux!WaitGeneration
  <2>1. UNCHANGED <<decisions, plan, rows, stage>> /\ ctl.phase = "wait_generation"
        /\ (Flux!Phase("transfer") \/ Flux!Fails)
    BY <1>7 DEF Flux!WaitGeneration, Flux!At
  <2>2. CASE Flux!Phase("transfer")
    BY <1>0, <2>1, <2>2, FluxMovesOn DEF Working
  <2>3. CASE Flux!Fails
    BY <1>0, <2>1, <2>3, FluxFails, FluxStays
  <2> QED
    BY <2>1, <2>2, <2>3
<1>8. CASE Flux!Transfer
  BY <1>8, TransferStep
<1>9. ASSUME NEW g \in Flux!Shards, Flux!SaveImage(g) \/ Flux!AppendRow(g) \/ Flux!ShardDone(g) \/ Flux!KillShard(g)
      PROVE  FluxInv'
  <2>1. UNCHANGED <<ctl, decisions, plan, stage>>
    BY <1>9 DEF Flux!SaveImage, Flux!AppendRow, Flux!ShardDone, Flux!KillShard
  <2>2. rows' = rows \/ \E i : rows' = [rows EXCEPT ![i] = @ + 1]
    BY <1>9 DEF Flux!SaveImage, Flux!AppendRow, Flux!ShardDone, Flux!KillShard
  <2>3. rows' \in [Flux!Image -> Nat]
    BY <1>0, <2>2
  <2> QED
    BY <2>1, <2>3, FluxStays
<1>10. CASE \E i \in Flux!Planned : Flux!LosePixels(i)
  BY <1>0, <1>10, FluxStays DEF Flux!LosePixels
<1>11. CASE Flux!Ingest
  <2>1. UNCHANGED <<decisions, plan, rows>> /\ ctl.phase = "review"
    BY <1>11 DEF Flux!Ingest, Flux!At
  <2>2. CASE Flux!Fails /\ UNCHANGED stage
    BY <1>0, <2>1, <2>2, FluxFails, FluxStays
  <2>3. CASE /\ Flux!EachOnce /\ Flux!ExactlyTheNeeds /\ stage' = [stage EXCEPT !.at = "committed"]
             /\ ctl' = [ctl EXCEPT !.module = TRUE]
    <3>1. DOMAIN ctl' = DOMAIN ctl /\ ctl'.cycle = ctl.cycle /\ ctl'.phase = ctl.phase
      BY <1>0, <2>3
    <3> QED
      BY <2>1, <2>3, <3>1, StageStep
  <2> QED
    BY <1>11, <2>2, <2>3 DEF Flux!Ingest
<1>12. CASE Flux!WriteProposals \/ Flux!Inspect \/ Flux!WritePreparation
  <2>1. /\ UNCHANGED <<decisions, plan, rows>> /\ ctl.phase = "review" /\ stage.at # "copied"
        /\ \/ Flux!Fails /\ UNCHANGED stage
           \/ /\ UNCHANGED ctl
              /\ \E at \in {"ingested", "inspected", "prepared"} : stage' = [stage EXCEPT !.at = at]
    BY <1>12 DEF Flux!WriteProposals, Flux!Inspect, Flux!WritePreparation, Flux!At
  <2>2. CASE Flux!Fails /\ UNCHANGED stage
    BY <1>0, <2>1, <2>2, FluxFails, FluxStays
  <2>3. CASE UNCHANGED ctl /\ \E at \in {"ingested", "inspected", "prepared"} : stage' = [stage EXCEPT !.at = at]
    BY <2>1, <2>3, StageStep
  <2> QED
    BY <2>1, <2>2, <2>3
<1>13. CASE Flux!Prepare
  <2>1. UNCHANGED <<decisions, plan, rows>> /\ ctl.phase = "review" /\ stage.at # "copied"
        /\ stage' = [stage EXCEPT !.at = "queued"] /\ ctl' = [ctl EXCEPT !.module = TRUE]
    BY <1>13 DEF Flux!Prepare, Flux!At
  <2>2. DOMAIN ctl' = DOMAIN ctl /\ ctl'.cycle = ctl.cycle /\ ctl'.phase = ctl.phase
    BY <1>0, <2>1
  <2> QED
    BY <2>1, <2>2, StageStep
<1>14. CASE Flux!Judge
  BY <1>14, JudgeStep
<1>15. CASE Flux!Review
  BY <1>15, ReviewStep
<1>16. CASE Flux!Complete
  <2>1. UNCHANGED <<decisions, plan, rows, stage>> /\ (Flux!Phase("done") \/ Flux!Fails)
    BY <1>16 DEF Flux!Complete
  <2>2. CASE Flux!Phase("done")
    BY <1>0, <2>1, <2>2, FluxMovesOn DEF Working
  <2>3. CASE Flux!Fails
    BY <1>0, <2>1, <2>3, FluxFails, FluxStays
  <2> QED
    BY <2>1, <2>2, <2>3
<1>17. CASE UNCHANGED Flux!vars
  BY <1>0, <1>17, FluxStays DEF Flux!vars
<1> QED
  BY <1>1, <1>2, <1>3, <1>4, <1>5, <1>6, <1>7, <1>8, <1>9, <1>10, <1>11, <1>12, <1>13, <1>14, <1>15, <1>16, <1>17
     DEF Flux!Next

(* DistinctPositives: the accepted slots of a concept hold different       *)
(* images, over all cycles, and no image serves more slots than the cap,   *)
(* whatever is made twice, lost or repeated                                *)
(* (campaign35_flux_ingest.py, campaign35_reuse_cap.py).                   *)
THEOREM PositivesCorrect ==
  ASSUME SlotsOK PROVE Flux!Spec => []Flux!DistinctPositives
<1>1. Flux!Init => FluxInv
  BY FluxStart
<1>2. FluxInv /\ [Flux!Next]_(Flux!vars) => FluxInv'
  BY FluxStep
<1>3. FluxInv => Flux!DistinctPositives
  BY SameCount DEF FluxInv, DecidedOK, HeldApart, Flux!DistinctPositives
<1> QED
  BY <1>1, <1>2, <1>3, PTL DEF Flux!Spec
=============================================================================
