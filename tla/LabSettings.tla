------------------------------ MODULE LabSettings ------------------------------
(***************************************************************************)
(* The settings of the Lab: drafts saved over a configuration, the draft   *)
(* that is active and the one that waits for a run, jobs bound to a draft, *)
(* and the token limits of one model that a job is leased with.            *)
(***************************************************************************)
EXTENDS Integers, Sequences, SequencesExt

CONSTANTS
    Default,    \* Default[c]: the limits in the c-th configuration
    Entered,    \* limits an operator enters
    Jobs,
    MaxRuns,    \* bound: runs of all jobs
    MaxChanges, \* bound: saves, activated configurations and ended processes
    Null

Configs == DOMAIN Default
Fields == {"context", "output"}

VARIABLES
    config,   \* the active configuration
    api,      \* the one the API process was started with
    latest,   \* the draft that was saved last
    active, pending, \* lab_settings_control
    job, runs,
    pipeline, \* the desired state
    form,     \* the operator's form, and the save of it
    reader,   \* the draft that apply_pending_settings found due
    changes

control == <<active, pending>>
vars == <<config, api, latest, control, job, runs, pipeline, form, reader, changes>>

Limits == [Fields -> Nat]
Draft == [base : Configs, limits : Limits]

TypeOK ==
    /\ config \in Configs /\ api \in Configs
    /\ latest \in Draft \cup {Null} /\ active \in Draft \cup {Null}
    /\ pending \in [draft : Draft, after : 1 .. MaxRuns] \cup {Null}
    /\ job \in [Jobs -> [at : {"absent", "queued", "live", "done"}, draft : Draft \cup {Null}]]
    /\ runs \in Seq([job : Jobs, live : BOOLEAN]) /\ Len(runs) <= MaxRuns
    /\ pipeline \in {"running", "paused"}
    /\ form \in [at : {"closed"}] \cup [at : {"open"}, draft : Draft]
                \cup [at : {"saved"}, draft : Draft, live : 0 .. MaxRuns, action : {"restart", "after"}]
    /\ reader \in Draft \cup {Null} /\ changes \in 0 .. MaxChanges

Closed == [at |-> "closed"]

Init ==
    /\ config \in Configs /\ api = config /\ latest = Null /\ active = Null /\ pending = Null
    /\ job = [j \in Jobs |-> [at |-> "absent", draft |-> Null]]
    /\ runs = <<>> /\ pipeline = "running" /\ form = Closed /\ reader = Null /\ changes = 0

Change == changes < MaxChanges /\ changes' = changes + 1

-----------------------------------------------------------------------------
(* Payloads.                                                               *)

SettingsAt(c) == Default[c]

Valid(limits) == limits["output"] >= 1 /\ limits["output"] < limits["context"]

\* Fault: fields are carried over one by one.
Unpaired(limits, target) == limits

\* Limits that contradict each other give way to those of the target.
Paired(limits, target) == IF Valid(limits) THEN limits ELSE target

\* What differs from the base is the operator's choice; without a base everything is.
Rebase(limits, base, target) ==
    Paired([f \in Fields |-> IF base # Null /\ limits[f] = SettingsAt(base)[f] THEN target[f] ELSE limits[f]],
           target)

Carried(draft, c, target) ==
    IF draft.base = c THEN draft.limits ELSE Rebase(draft.limits, draft.base, target)

ActiveSettings(c) == IF active = Null THEN SettingsAt(c) ELSE Carried(active, c, SettingsAt(c))

\* runtime_settings_for_job, for a process that holds configuration c.
SettingsForJob(j, c) ==
    IF job[j].draft = Null THEN SettingsAt(c) ELSE Carried(job[j].draft, c, ActiveSettings(c))

-----------------------------------------------------------------------------
(* Configurations and processes.                                           *)

ActivateConfig ==
    /\ Change /\ config' \in Configs \ {config}
    /\ UNCHANGED <<api, latest, control, job, runs, pipeline, form, reader>>

\* The configuration of the API is read once; a save in progress ends with the process.
RestartApi ==
    /\ Change /\ api' = config /\ form' = IF form.at = "saved" THEN Closed ELSE form
    /\ UNCHANGED <<config, latest, control, job, runs, pipeline, reader>>

RestartDaemon ==
    /\ Change /\ reader # Null /\ reader' = Null
    /\ UNCHANGED <<config, api, latest, control, job, runs, pipeline, form>>

-----------------------------------------------------------------------------
(* Saves.                                                                  *)

OpenForm ==
    /\ form.at # "saved" /\ form' = [at |-> "open", draft |-> [base |-> api, limits |-> ActiveSettings(api)]]
    /\ UNCHANGED <<config, api, latest, control, job, runs, pipeline, reader, changes>>

\* The operator changes some fields of the form.
Edited ==
    LET shown == form.draft.limits IN
    {[f \in Fields |-> IF f \in kept THEN shown[f] ELSE entered[f]] :
        kept \in SUBSET Fields, entered \in Entered}

\* A form of another configuration is rebased without its base.
Sent(limits) == IF form.draft.base = api THEN limits ELSE Rebase(limits, Null, SettingsAt(api))

Live == {r \in DOMAIN runs : runs[r].live}
CurrentStep == IF Live = {} THEN 0 ELSE CHOOSE r \in Live : \A s \in Live : r <= s

\* save_settings up to save_draft, which another transaction follows.
SaveDraft(limits) ==
    LET draft == [base |-> api, limits |-> Sent(limits)] IN
    /\ Change /\ Valid(Sent(limits)) /\ latest' = draft
    /\ \E action \in {"restart", "after"} :
          form' = [at |-> "saved", draft |-> draft, live |-> CurrentStep, action |-> action]
    /\ UNCHANGED <<config, api, control, job, runs, pipeline, reader>>

\* Queued jobs follow the active draft, whatever was pending is dropped.
Activates(draft) ==
    /\ active' = draft /\ pending' = Null
    /\ job' = [j \in Jobs |-> IF job[j].at = "queued" THEN [job[j] EXCEPT !.draft = draft] ELSE job[j]]

ApplyNow ==
    /\ form.at = "saved" /\ form.live = 0 /\ Activates(form.draft) /\ form' = Closed
    /\ UNCHANGED <<config, api, latest, runs, pipeline, reader, changes>>

ApplyAfterStep ==
    /\ form.at = "saved" /\ form.live # 0 /\ form.action = "after"
    /\ pending' = [draft |-> form.draft, after |-> form.live] /\ form' = Closed
    /\ UNCHANGED <<config, api, latest, active, job, runs, pipeline, reader, changes>>

\* Restart of a step that has ended meanwhile is a conflict.
RestartStep ==
    /\ form.at = "saved" /\ form.live # 0 /\ form.action = "restart" /\ form' = Closed
    /\ IF runs[form.live].live
       THEN /\ active' = form.draft /\ pending' = Null
            /\ job' = [j \in Jobs |->
                  IF job[j].at = "queued" \/ j = runs[form.live].job
                  THEN [at |-> "queued", draft |-> form.draft] ELSE job[j]]
            /\ runs' = [runs EXCEPT ![form.live].live = FALSE] /\ pipeline' = "running"
       ELSE UNCHANGED <<control, job, runs, pipeline>>
    /\ UNCHANGED <<config, api, latest, reader, changes>>

\* apply_pending_settings reads in one transaction and activates in another.
FindPending ==
    /\ pending # Null /\ reader = Null /\ ~runs[pending.after].live /\ reader' = pending.draft
    /\ UNCHANGED <<config, api, latest, control, job, runs, pipeline, form, changes>>

ApplyPending ==
    /\ reader # Null /\ Activates(reader) /\ reader' = Null
    /\ UNCHANGED <<config, api, latest, runs, pipeline, form, changes>>

\* lab-draft-rebase.
RebaseLatestDraft ==
    /\ latest # Null /\ latest.base # config
    /\ latest' = [base |-> config, limits |-> Rebase(latest.limits, latest.base, SettingsAt(config))]
    /\ UNCHANGED <<config, api, control, job, runs, pipeline, form, reader, changes>>

-----------------------------------------------------------------------------
(* Jobs.                                                                   *)

CreateJob(j) ==
    /\ job[j].at = "absent" /\ job' = [job EXCEPT ![j] = [at |-> "queued", draft |-> active]]
    /\ UNCHANGED <<config, api, latest, control, runs, pipeline, form, reader, changes>>

Lease(j) ==
    /\ pipeline = "running" /\ job[j].at = "queued" /\ Len(runs) < MaxRuns
    /\ job' = [job EXCEPT ![j].at = "live"] /\ runs' = Append(runs, [job |-> j, live |-> TRUE])
    /\ UNCHANGED <<config, api, latest, control, pipeline, form, reader, changes>>

\* A job that is queued again keeps its draft.
RunEnds(r) ==
    /\ r \in Live /\ runs' = [runs EXCEPT ![r].live = FALSE]
    /\ \E at \in {"queued", "done"} : job' = [job EXCEPT ![runs[r].job].at = at]
    /\ UNCHANGED <<config, api, latest, control, pipeline, form, reader, changes>>

Pause ==
    /\ Change /\ pipeline = "running" /\ pipeline' = "paused"
    /\ UNCHANGED <<config, api, latest, control, job, runs, form, reader>>

-----------------------------------------------------------------------------
Next ==
    \/ ActivateConfig \/ RestartApi \/ RestartDaemon \/ OpenForm
    \/ form.at = "open" /\ \E limits \in Edited : SaveDraft(limits)
    \/ ApplyNow \/ ApplyAfterStep \/ RestartStep \/ FindPending \/ ApplyPending \/ RebaseLatestDraft
    \/ \E j \in Jobs : CreateJob(j) \/ Lease(j)
    \/ \E r \in 1 .. MaxRuns : RunEnds(r)
    \/ Pause

Spec == Init /\ [][Next]_vars

-----------------------------------------------------------------------------
(* Whatever settings were saved over which configurations, and whichever   *)
(* configuration a process still holds, the settings of a job that waits   *)
(* or runs have limits that it can be leased with.                         *)
TokensLeasable ==
    \A j \in Jobs : job[j].at \in {"queued", "live"} => \A c \in Configs : Valid(SettingsForJob(j, c))
=============================================================================
