------------------------------- MODULE Releases -------------------------------
(***************************************************************************)
(* Releases of the trainbox: configurations and deployments in the hub's   *)
(* database, archives built from a source tree, releases installed and     *)
(* linked on the trainbox, and the job that one of them executes.          *)
(***************************************************************************)
EXTENDS Integers, Sequences, FiniteSets, SequencesExt

CONSTANTS
    Sources,    \* states of the source tree
    Dirty,      \* those that are not committed
    Config,     \* Config[s]: the configuration in source s
    MaxChanges, \* bound: the operator's changes, cut transfers and ended processes
    Null

VARIABLES
    config,     \* the active configuration snapshot
    retired,    \* superseded snapshots, the last to be activated at the end
    status,     \* the rows of deployments
    order,      \* deployments that were active, the last at the end
    pipeline,   \* the desired state
    tree,       \* the operator's checkout
    operator,   \* deployment-register-current
    driver,     \* BoundedCodexRepairDriver
    release,    \* release[s]: the directory installed for source s
    link,       \* the release the trainbox starts its agent from
    run,        \* the run of the job, and its envelope
    agent,      \* the agent process that was sent the envelope
    changes

hubVars == <<config, retired, status, order>>
vars == <<hubVars, pipeline, tree, operator, driver, release, link, run, agent, changes>>

Configs == {Config[s] : s \in Sources}

\* A deployment is of a source, for the snapshot that was active when it was registered.
Deployment == [source : Sources, config : Configs]
Clean(d) == d.source \notin Dirty
Archive == [manifest : Deployment, files : Sources]

TypeOK ==
    /\ config \in Configs /\ retired \in Seq(Configs) /\ order \in Seq(Deployment)
    /\ status \in [Deployment -> {"absent", "candidate", "active", "retired", "rejected"}]
    /\ pipeline \in {"running", "paused"} /\ tree \in Sources
    /\ operator \in Deployment \cup {Null}
    /\ driver \in [at : {"idle", "failed", "registered", "installed", "linked"},
                   run : {Null} \cup Deployment, manifest : {Null} \cup Deployment]
    /\ release \in [Sources -> Archive \cup {Null}] /\ link \in Sources
    /\ run \in Deployment \cup {Null}
    /\ agent \in [at : {"none", "loaded", "verified", "executing"},
                  config : {Null} \cup Configs, manifest : {Null} \cup Deployment]
    /\ changes \in 0 .. MaxChanges

NoAgent == [at |-> "none", config |-> Null, manifest |-> Null]
Idle == [at |-> "idle", run |-> Null, manifest |-> Null]

\* Commissioned: a clean release is installed, linked and active.
Init ==
    /\ tree \in Sources \ Dirty /\ config = Config[tree] /\ retired = <<>>
    /\ LET d == [source |-> tree, config |-> config] IN
          /\ status = [e \in Deployment |-> IF e = d THEN "active" ELSE "absent"]
          /\ order = <<d>>
          /\ release = [s \in Sources |-> IF s = tree THEN [manifest |-> d, files |-> tree] ELSE Null]
    /\ link = tree /\ pipeline = "running" /\ operator = Null /\ driver = Idle
    /\ run = Null /\ agent = NoAgent /\ changes = 0

Change == changes < MaxChanges /\ changes' = changes + 1

-----------------------------------------------------------------------------
(* The operator.                                                           *)

EditTree ==
    /\ Change /\ tree' \in Sources \ {tree}
    /\ UNCHANGED <<hubVars, pipeline, operator, driver, release, link, run, agent>>

ActivateConfig ==
    /\ Change /\ config # Config[tree] /\ config' = Config[tree]
    /\ retired' = Append(SelectSeq(retired, LAMBDA c : c # Config[tree]), config)
    /\ UNCHANGED <<status, order, pipeline, tree, operator, driver, release, link, run, agent>>

PipelineState ==
    /\ pipeline' = IF pipeline = "running" THEN "paused" ELSE "running"
    /\ UNCHANGED <<hubVars, tree, operator, driver, release, link, run, agent, changes>>

\* A row is kept as it is when the same manifest is registered again.
Registered(d) == [status EXCEPT ![d] = IF @ = "absent" THEN "candidate" ELSE @]

Activated(rows, d) ==
    [e \in Deployment |-> IF e = d THEN "active" ELSE IF rows[e] = "active" THEN "retired" ELSE rows[e]]
Latest(d) == Append(SelectSeq(order, LAMBDA e : e # d), d)

\* The manifest names the active snapshot, whatever the tree's own configuration is.
RegisterCurrent ==
    LET d == [source |-> tree, config |-> config] IN
    /\ operator = Null /\ operator' = d
    /\ \/ status' = Registered(d) /\ UNCHANGED order
       \/ Clean(d) /\ status' = Activated(Registered(d), d) /\ order' = Latest(d)
    /\ UNCHANGED <<config, retired, pipeline, tree, driver, release, link, run, agent, changes>>

RejectDeployment(d) ==
    /\ Change /\ status[d] \notin {"absent", "active"} /\ status' = [status EXCEPT ![d] = "rejected"]
    /\ UNCHANGED <<config, retired, order, pipeline, tree, operator, driver, release, link, run, agent>>

\* Fault: the files of an archive are taken for those of its manifest.
Unverified(archive) == TRUE

VerifyRelease(archive) == archive.files = archive.manifest.source

\* release-install: a directory appears whole or not at all, and is never replaced.
Installs(archive) ==
    LET d == archive.manifest IN
    IF release[d.source] = Null
    THEN /\ VerifyRelease(archive) /\ Config[archive.files] = d.config
         /\ release' = [release EXCEPT ![d.source] = archive]
    ELSE release[d.source].manifest = d /\ UNCHANGED release

\* The archive is built from the tree after the manifest was made of it.
BuildAndInstall ==
    /\ operator # Null /\ operator' = Null
    /\ \/ Installs([manifest |-> operator, files |-> tree])
       \/ UNCHANGED release
    /\ UNCHANGED <<hubVars, pipeline, tree, driver, link, run, agent, changes>>

\* release-activate.
Links(d) ==
    /\ release[d.source] # Null /\ release[d.source].manifest = d /\ Config[release[d.source].files] = d.config
    /\ VerifyRelease(release[d.source]) /\ link' = d.source

OperatorLinks(d) ==
    /\ Links(d)
    /\ UNCHANGED <<hubVars, pipeline, tree, operator, driver, release, run, agent, changes>>

-----------------------------------------------------------------------------
(* The repair of a run that failed.                                        *)

\* _deploy_local_candidate: a commit of the detached worktree becomes a candidate.
DriverRegisters ==
    /\ driver.at = "failed" /\ pipeline = "paused" /\ run = Null
    /\ \E s \in Sources \ Dirty :
          LET d == [source |-> s, config |-> config] IN
          /\ s # driver.run.source /\ Config[s] = config
          /\ status' = Registered(d)
          /\ driver' = [driver EXCEPT !.at = "registered", !.manifest = d]
    /\ UNCHANGED <<config, retired, order, pipeline, tree, operator, release, link, run, agent, changes>>

DriverInstalls ==
    /\ driver.at = "registered"
    /\ Installs([manifest |-> driver.manifest, files |-> driver.manifest.source])
    /\ driver' = [driver EXCEPT !.at = "installed"]
    /\ UNCHANGED <<hubVars, pipeline, tree, operator, link, run, agent, changes>>

DriverLinks ==
    /\ driver.at = "installed" /\ Links(driver.manifest)
    /\ driver' = [driver EXCEPT !.at = "linked"]
    /\ UNCHANGED <<hubVars, pipeline, tree, operator, release, run, agent, changes>>

\* activate_registered_deployment refuses what is no candidate of the active snapshot.
DriverActivates ==
    LET d == driver.manifest IN
    /\ driver.at = "linked" /\ driver' = Idle
    /\ IF status[d] = "candidate" /\ d.config = config
       THEN status' = Activated(status, d) /\ order' = Latest(d)
       ELSE UNCHANGED <<status, order>>
    /\ UNCHANGED <<config, retired, pipeline, tree, operator, release, link, run, agent, changes>>

\* A cut transfer, a refused receipt, or the end of the daemon.
DriverStops ==
    /\ Change /\ driver.at # "idle" /\ driver' = Idle
    /\ UNCHANGED <<hubVars, pipeline, tree, operator, release, link, run, agent>>

Retained(c) == {d \in Deployment : d.config = c /\ status[d] \in {"active", "retired", "candidate"}}

\* The deployment of a snapshot that was active last, else one that never was.
KnownGood(c) ==
    {d \in Retained(c) :
        IF \E e \in Retained(c) : Contains(order, e)
        THEN /\ Contains(order, d)
             /\ \A e \in Retained(c) : Contains(order, e) =>
                   SelectInSeq(order, LAMBDA x : x = e) <= SelectInSeq(order, LAMBDA x : x = d)
        ELSE TRUE}

\* A configuration failure: the database goes back, the link of the trainbox stays.
RollbackConfiguration ==
    LET usable == {i \in DOMAIN retired : Retained(retired[i]) # {}} IN
    /\ driver.at = "failed" /\ pipeline = "paused" /\ run = Null
    /\ usable # {} /\ driver.run.config = config
    /\ LET i == CHOOSE i \in usable : \A j \in usable : j <= i IN
          /\ config' = retired[i]
          /\ retired' = Append(RemoveAt(retired, i), config)
          /\ \E d \in KnownGood(retired[i]) : status' = Activated(status, d) /\ order' = Latest(d)
    /\ driver' = Idle
    /\ UNCHANGED <<pipeline, tree, operator, release, link, run, agent, changes>>

-----------------------------------------------------------------------------
(* Runs.                                                                   *)

Lease(d) ==
    /\ run = Null /\ pipeline = "running"
    /\ status[d] = "active" /\ d.config = config
    /\ run' = d
    /\ UNCHANGED <<hubVars, pipeline, tree, operator, driver, release, link, agent, changes>>

\* The process reads the configuration, and the manifest after it, through the link.
AgentLoads ==
    /\ run # Null /\ agent.at = "none"
    /\ agent' = [NoAgent EXCEPT !.at = "loaded", !.config = Config[release[link].files]]
    /\ UNCHANGED <<hubVars, pipeline, tree, operator, driver, release, link, run, changes>>

AgentVerifies ==
    /\ agent.at = "loaded" /\ VerifyRelease(release[link])
    /\ agent' = [agent EXCEPT !.at = "verified", !.manifest = release[link].manifest]
    /\ UNCHANGED <<hubVars, pipeline, tree, operator, driver, release, link, run, changes>>

ValidEnvelope == agent.manifest = run /\ agent.config = run.config

AgentExecutes ==
    /\ agent.at = "verified" /\ ValidEnvelope
    /\ agent' = [agent EXCEPT !.at = "executing"]
    /\ UNCHANGED <<hubVars, pipeline, tree, operator, driver, release, link, run, changes>>

Failed == driver' = IF driver.at = "idle" THEN [Idle EXCEPT !.at = "failed", !.run = run] ELSE driver

\* A refusal and a failed job are a failed run alike.
RunEnds ==
    /\ \/ agent.at = "verified" /\ ~ValidEnvelope /\ Failed
       \/ agent.at = "executing" /\ (Failed \/ UNCHANGED driver)
    /\ run' = Null /\ agent' = NoAgent
    /\ UNCHANGED <<hubVars, pipeline, tree, operator, release, link, changes>>

-----------------------------------------------------------------------------
Next ==
    \/ EditTree \/ ActivateConfig \/ PipelineState \/ RegisterCurrent \/ BuildAndInstall
    \/ \E d \in Deployment : RejectDeployment(d) \/ OperatorLinks(d) \/ Lease(d)
    \/ DriverRegisters \/ DriverInstalls \/ DriverLinks \/ DriverActivates \/ DriverStops
    \/ RollbackConfiguration
    \/ AgentLoads \/ AgentVerifies \/ AgentExecutes \/ RunEnds

Spec == Init /\ [][Next]_vars

-----------------------------------------------------------------------------
(* A job is executed by the release it was leased under, from the files    *)
(* that were attested and with the configuration of its lease: whatever    *)
(* the operator, a repair or a rollback changed in the tree, the database  *)
(* or the trainbox since.                                                  *)
RunsAttestedSource ==
    agent.at = "executing" =>
        /\ release[agent.manifest.source] = [manifest |-> run, files |-> run.source]
        /\ agent.config = Config[run.source]
=============================================================================
