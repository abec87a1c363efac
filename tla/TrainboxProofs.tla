---------------------------- MODULE TrainboxProofs ----------------------------
(***************************************************************************)
(* What the trainbox is promised, for any number of attempts, releases and *)
(* transfers: one GPU workload at a time (RemoteRun), runs of the source   *)
(* that their release attests (Releases), and artifacts that are whole     *)
(* where they are recorded (ArtifactStore).                                *)
(*                                                                         *)
(* The components share nothing: each theorem is about one of them, and    *)
(* the variables they have by the same name are meant one at a time.       *)
(***************************************************************************)
EXTENDS Naturals, WellFoundedInduction, TLAPS

CONSTANTS MaxRuns, MaxTrouble, Null, Sources, Dirty, Config, MaxChanges, Builds, Movers, Cleaners,
          MaxScans

VARIABLES
    run, lane, wire, agent, child, lock, vision, trouble,
    config, retired, status, order, pipeline, tree, operator, driver, release, link, changes,
    artifact, at, bytes, mover, cleaner, deletion

-----------------------------------------------------------------------------
(* The attempts of a GPU job.                                              *)

Remote == INSTANCE RemoteRun

(* The agent that holds the lock is alive, and only its child gets so far  *)
(* as to load; once the preflight has found the memory free, no child of   *)
(* another attempt takes it, for that attempt would have to hold the lock. *)
Locked(r) == agent[r] \in {"checking", "cleared", "executing"}

AttemptOK(r) ==
  /\ Locked(r) <=> lock = r
  /\ child[r] \in {"guarded", "loaded"} => agent[r] = "executing"
  /\ agent[r] \in {"cleared", "executing"} =>
       \A s \in Remote!Runs : s # r => child[s] \notin Remote!Occupying

GpuInv ==
  /\ Remote!TypeOK /\ Remote!OneGpuWorkload
  /\ \A r \in Remote!Runs : AttemptOK(r)
  /\ vision.own # "none" <=> lock = Remote!Server

LEMMA GpuInit ==
  ASSUME MaxTrouble \in Nat, Null \notin Nat PROVE Remote!Init => GpuInv
BY DEF Remote!Init, GpuInv, AttemptOK, Locked, Remote!TypeOK, Remote!OneGpuWorkload, Remote!Occupying,
  Remote!Runs, Remote!Server, Remote!Ended, Remote!Working

(* Type correctness, step by step.                                         *)
LEMMA RemoteTyped ==
  ASSUME MaxTrouble \in Nat PROVE Remote!TypeOK /\ [Remote!Next]_(Remote!vars) => Remote!TypeOK'
<1> SUFFICES ASSUME Remote!TypeOK, [Remote!Next]_(Remote!vars) PROVE Remote!TypeOK'
  OBVIOUS
<1> USE DEF Remote!TypeOK, Remote!Ended, Remote!Working
<1>1. ASSUME NEW r \in Remote!Runs,
             \/ Remote!LeaseNext(r) \/ Remote!Cancel(r) \/ Remote!Expire(r)
             \/ Remote!Poll(r) \/ Remote!GiveUp(r) \/ Remote!Receive(r) \/ Remote!Record(r)
             \/ Remote!LinkLost(r)
      PROVE  Remote!TypeOK'
  BY <1>1 DEF Remote!LeaseNext, Remote!Cancel, Remote!Expire, Remote!Poll, Remote!GiveUp, Remote!Receive,
     Remote!Record, Remote!LinkLost, Remote!Finish, Remote!HangUp
<1>2. ASSUME NEW r \in Remote!Runs,
             \/ Remote!Accept(r) \/ Remote!TakeLock(r) \/ Remote!Preflight(r) \/ Remote!Refuse(r)
             \/ Remote!Start(r) \/ Remote!ChildGuards(r) \/ Remote!ChildLoads(r) \/ Remote!ChildExits(r)
             \/ Remote!ChildReleases(r)
      PROVE  Remote!TypeOK'
  BY <1>2 DEF Remote!Accept, Remote!TakeLock, Remote!Preflight, Remote!Refuse, Remote!Start,
     Remote!ChildGuards, Remote!ChildLoads, Remote!ChildExits, Remote!ChildReleases, Remote!Answer
<1>3. ASSUME NEW r \in Remote!Runs, Remote!Watchdog(r) \/ Remote!AgentKilled(r)
      PROVE  Remote!TypeOK'
  BY <1>3 DEF Remote!Watchdog, Remote!AgentKilled, Remote!AgentEnds, Remote!Orphaned, Remote!HangUp
<1>4. CASE Remote!DaemonDies
  BY <1>4 DEF Remote!DaemonDies
<1>5. CASE \/ Remote!VisionAsk \/ Remote!VisionAnswers \/ Remote!VisionServerEnds \/ Remote!VisionOrphanEnds
           \/ \E which \in {"own", "orphan"} : Remote!VisionLoads(which)
  BY <1>5 DEF Remote!VisionAsk, Remote!VisionAnswers, Remote!VisionServerEnds, Remote!VisionOrphanEnds,
     Remote!VisionLoads
<1>6. CASE UNCHANGED Remote!vars
  BY <1>6 DEF Remote!vars
<1> QED
  BY <1>1, <1>2, <1>3, <1>4, <1>5, <1>6 DEF Remote!Next

(* What a step of attempt r makes of its agent (x), of its child (y) and   *)
(* of the lock.                                                            *)
AgentMove(r, x, y) ==
  \/ agent[r] = "none" /\ x = "waiting" /\ y = child[r] /\ lock' = lock
  \/ agent[r] = "waiting" /\ x = "checking" /\ y = child[r] /\ lock = Null /\ lock' = r
  \/ /\ agent[r] = "checking" /\ x = "cleared" /\ y = child[r] /\ lock' = lock
     /\ \A s \in Remote!Runs : child[s] \notin Remote!Occupying
  \/ agent[r] = "cleared" /\ x = "executing" /\ y = "booting" /\ lock' = lock
  \/ /\ Locked(r) /\ x \in {"ok", "error"} /\ lock' = Null
     /\ y = "gone" \/ (y = child[r] /\ agent[r] # "executing")
  \/ /\ x = agent[r] /\ lock' = lock
     /\ \/ child[r] = "booting" /\ y = IF agent[r] = "executing" THEN "guarded" ELSE "gone"
        \/ child[r] = "guarded" /\ y = "loaded"
        \/ child[r] = "dying" /\ y = "gone"
  \/ /\ x = "dead" /\ y = Remote!Orphaned(child[r])
     /\ lock' = IF lock = r THEN Null ELSE lock

LEMMA GpuStep ==
  ASSUME MaxTrouble \in Nat, Null \notin Nat, GpuInv, [Remote!Next]_(Remote!vars)
  PROVE  GpuInv'
<1>0. Remote!TypeOK' /\ Remote!TypeOK
  BY RemoteTyped DEF GpuInv
<1>n. Remote!Runs \subseteq Nat \ {Remote!Server} /\ Null \notin Remote!Runs
  BY DEF Remote!Runs, Remote!Server
<1> SUFFICES Remote!OneGpuWorkload' /\ (\A r \in Remote!Runs : AttemptOK(r)')
             /\ (vision'.own # "none" <=> lock' = Remote!Server)
  BY <1>0 DEF GpuInv
(* The ledger, the lane and the wire: no process is started or ended.      *)
<1>1. CASE UNCHANGED <<agent, child, lock, vision>>
  BY <1>1 DEF GpuInv, AttemptOK, Locked, Remote!OneGpuWorkload, Remote!Occupying
(* The agent and the child of one attempt.                                 *)
<1>2. ASSUME NEW r \in Remote!Runs,
             \/ Remote!Accept(r) \/ Remote!TakeLock(r) \/ Remote!Preflight(r) \/ Remote!Refuse(r)
             \/ Remote!Start(r) \/ Remote!ChildExits(r) \/ Remote!ChildGuards(r) \/ Remote!ChildLoads(r)
             \/ Remote!ChildReleases(r) \/ Remote!Watchdog(r) \/ Remote!AgentKilled(r)
      PROVE  GpuInv'
  <2>1. PICK x, y :
          /\ agent' = [agent EXCEPT ![r] = x] /\ child' = [child EXCEPT ![r] = y] /\ vision' = vision
          /\ AgentMove(r, x, y)
    <3>0. /\ agent = [agent EXCEPT ![r] = agent[r]] /\ child = [child EXCEPT ![r] = child[r]]
      BY <1>0 DEF Remote!TypeOK
    <3>1. CASE Remote!Accept(r) \/ Remote!TakeLock(r) \/ Remote!Refuse(r)
      BY <3>0, <3>1 DEF Remote!Accept, Remote!TakeLock, Remote!Refuse, Remote!Answer, AgentMove, Locked
    <3>2. CASE Remote!Preflight(r)
      BY <3>0, <3>2 DEF Remote!Preflight, Remote!Answer, Remote!MemoryFree, AgentMove, Locked
    <3>3. CASE Remote!Start(r) \/ Remote!ChildExits(r)
      BY <3>0, <3>3 DEF Remote!Start, Remote!ChildExits, Remote!Answer, AgentMove, Locked
    <3>4. CASE Remote!ChildGuards(r) \/ Remote!ChildLoads(r) \/ Remote!ChildReleases(r)
      BY <3>0, <3>4 DEF Remote!ChildGuards, Remote!ChildLoads, Remote!ChildReleases, AgentMove
    <3>5. CASE Remote!Watchdog(r) \/ Remote!AgentKilled(r)
      BY <3>5 DEF Remote!Watchdog, Remote!AgentKilled, Remote!AgentEnds, Remote!Working, AgentMove
    <3> QED
      BY <1>2, <3>1, <3>2, <3>3, <3>4, <3>5
  <2>2. /\ \A s \in Remote!Runs : agent'[s] = IF s = r THEN x ELSE agent[s]
        /\ \A s \in Remote!Runs : child'[s] = IF s = r THEN y ELSE child[s]
    BY <1>0, <2>1 DEF Remote!TypeOK
  <2>3. AttemptOK(r) /\ \A s \in Remote!Runs : AttemptOK(s) /\ s # Null /\ s # Remote!Server
    BY <1>n DEF GpuInv
  <2>4. Remote!OneGpuWorkload'
    BY <2>1, <2>2, <2>3 DEF GpuInv, AgentMove, AttemptOK, Remote!OneGpuWorkload, Remote!Occupying, Remote!Orphaned
  <2>5. \A s \in Remote!Runs : Locked(s)' <=> lock' = s
    BY <2>1, <2>2, <2>3 DEF AgentMove, AttemptOK, Locked
  <2>6. \A s \in Remote!Runs : child'[s] \in {"guarded", "loaded"} => agent'[s] = "executing"
    BY <2>1, <2>2, <2>3 DEF AgentMove, AttemptOK, Locked, Remote!Orphaned
  <2>7. ASSUME NEW s \in Remote!Runs, agent'[s] \in {"cleared", "executing"}, NEW q \in Remote!Runs, q # s
        PROVE  child'[q] \notin Remote!Occupying
    BY <2>1, <2>2, <2>3, <2>7 DEF AgentMove, AttemptOK, Locked, Remote!Occupying, Remote!Orphaned
  <2>8. vision'.own # "none" <=> lock' = Remote!Server
    BY <2>1, <2>3, <1>n DEF GpuInv, AgentMove, AttemptOK, Locked, Remote!Server
  <2> QED
    BY <1>0, <2>4, <2>5, <2>6, <2>7, <2>8 DEF GpuInv, AttemptOK
<1>5. CASE \/ Remote!VisionAsk \/ Remote!VisionAnswers \/ Remote!VisionServerEnds \/ Remote!VisionOrphanEnds
           \/ \E which \in {"own", "orphan"} : Remote!VisionLoads(which)
  <2>1. UNCHANGED <<agent, child>>
    BY <1>5 DEF Remote!VisionAsk, Remote!VisionAnswers, Remote!VisionServerEnds, Remote!VisionOrphanEnds,
       Remote!VisionLoads
  <2>2. (vision'.own # "none" <=> lock' = Remote!Server) /\ \A r \in Remote!Runs : lock' = r <=> lock = r
    BY <1>0, <1>5, <1>n DEF GpuInv, Remote!VisionAsk, Remote!VisionAnswers, Remote!VisionServerEnds,
       Remote!VisionOrphanEnds, Remote!VisionLoads, Remote!TypeOK, Remote!Server
  <2> QED
    BY <2>1, <2>2 DEF GpuInv, AttemptOK, Locked, Remote!OneGpuWorkload, Remote!Occupying
<1>6. ASSUME NEW r \in Remote!Runs,
             \/ Remote!LeaseNext(r) \/ Remote!Cancel(r) \/ Remote!Expire(r)
             \/ Remote!Poll(r) \/ Remote!GiveUp(r) \/ Remote!Receive(r) \/ Remote!Record(r)
             \/ Remote!LinkLost(r)
      PROVE  UNCHANGED <<agent, child, lock, vision>>
  BY <1>6 DEF Remote!LeaseNext, Remote!Cancel, Remote!Expire, Remote!Poll, Remote!GiveUp, Remote!Receive,
     Remote!Record, Remote!LinkLost, Remote!HangUp
<1>7. CASE Remote!DaemonDies \/ UNCHANGED Remote!vars
  BY <1>1, <1>7 DEF Remote!DaemonDies, Remote!vars
<1> QED
  BY <1>1, <1>2, <1>5, <1>6, <1>7 DEF Remote!Next, GpuInv

(* The GPU memory is never held by the work of two attempts, not even by   *)
(* that of an ended run and of the run that retries it, for any number of  *)
(* attempts, cut connections and killed agents.                            *)
THEOREM OneGpuCorrect ==
  ASSUME MaxTrouble \in Nat, Null \notin Nat PROVE Remote!Spec => []Remote!OneGpuWorkload
<1>1. Remote!Init => GpuInv
  BY GpuInit
<1>2. GpuInv /\ [Remote!Next]_(Remote!vars) => GpuInv'
  BY GpuStep
<1>3. GpuInv => Remote!OneGpuWorkload
  BY DEF GpuInv
<1> QED
  BY <1>1, <1>2, <1>3, PTL DEF Remote!Spec

-----------------------------------------------------------------------------
(* Releases.                                                               *)

Rel == INSTANCE Releases

(* What is installed for a source stays: the manifest names the source and *)
(* its configuration, and the files are the source's.                      *)
Attested(s) ==
  release[s] # Null =>
    /\ release[s] = [manifest |-> release[s].manifest, files |-> s]
    /\ release[s].manifest.source = s /\ release[s].manifest.config = Config[s]

InstalledOK == /\ DOMAIN release = Sources /\ link \in Sources /\ release[link] # Null
               /\ \A s \in Sources : Attested(s)

(* An agent that has read a manifest works under one that is installed; as *)
(* releases stay, it does not matter where the link points by now.         *)
AgentOK ==
  /\ agent = [at |-> agent.at, config |-> agent.config, manifest |-> agent.manifest]
  /\ agent.at \in {"verified", "executing"} =>
       LET s == agent.manifest.source IN s \in Sources /\ release[s] # Null /\ release[s].manifest = agent.manifest
  /\ agent.at # "none" => run # Null
  /\ agent.at = "executing" => agent.manifest = run /\ agent.config = run.config

(* Who may install: the operator with the manifest of an earlier tree, a   *)
(* repair with that of its worktree.                                       *)
MakersOK ==
  /\ tree \in Sources
  /\ operator # Null => operator.source \in Sources
  /\ DOMAIN driver = {"at", "run", "manifest"}
  /\ driver.at \in {"registered", "installed", "linked"} => driver.manifest.source \in Sources

AttestedInv == InstalledOK /\ AgentOK /\ MakersOK

LEMMA AttestedInit ==
  ASSUME Null \notin Rel!Archive, Rel!Init PROVE AttestedInv
<1>1. PICK d \in Rel!Deployment :
        /\ d = [source |-> tree, config |-> config]
        /\ release = [s \in Sources |-> IF s = tree THEN [manifest |-> d, files |-> tree] ELSE Null]
  BY DEF Rel!Init, Rel!Deployment, Rel!Configs
<1>2. [manifest |-> d, files |-> tree] # Null /\ d.source = tree /\ d.config = Config[tree]
  BY <1>1 DEF Rel!Init, Rel!Archive
<1> QED
  BY <1>1, <1>2 DEF Rel!Init, AttestedInv, InstalledOK, Attested, AgentOK, MakersOK, Rel!NoAgent, Rel!Idle

(* An installation adds a release at most, and one that was verified.      *)
LEMMA InstallAttests ==
  ASSUME InstalledOK, NEW m, NEW files, m.source \in Sources,
         Rel!Installs([manifest |-> m, files |-> files])
  PROVE  /\ DOMAIN release' = Sources /\ (\A s \in Sources : Attested(s)')
         /\ \A s \in Sources : release[s] # Null => release'[s] = release[s]
<1>1. CASE release[m.source] = Null
  <2>1. /\ files = m.source /\ Config[files] = m.config
        /\ release' = [release EXCEPT ![m.source] = [manifest |-> m, files |-> files]]
    BY <1>1 DEF Rel!Installs, Rel!VerifyRelease
  <2> QED
    BY <1>1, <2>1 DEF InstalledOK, Attested
<1>2. CASE release[m.source] # Null
  BY <1>2 DEF Rel!Installs, InstalledOK, Attested
<1> QED
  BY <1>1, <1>2

LEMMA AttestedStep ==
  ASSUME AttestedInv, [Rel!Next]_(Rel!vars) PROVE AttestedInv'
<1> USE DEF AttestedInv
(* The ledger alone, or the ledger and the operator's or the driver's idle *)
(* state.                                                                  *)
<1>1. CASE Rel!EditTree \/ Rel!ActivateConfig \/ Rel!PipelineState \/ Rel!RegisterCurrent
  <2>1. UNCHANGED <<driver, release, link, run, agent>>
    BY <1>1 DEF Rel!EditTree, Rel!ActivateConfig, Rel!PipelineState, Rel!RegisterCurrent
  <2>2. /\ tree' \in Sources
        /\ operator' = operator \/ operator' = [source |-> tree, config |-> config]
    BY <1>1 DEF Rel!EditTree, Rel!ActivateConfig, Rel!PipelineState, Rel!RegisterCurrent, MakersOK
  <2> QED
    BY <2>1, <2>2 DEF InstalledOK, Attested, AgentOK, MakersOK
<1>2. ASSUME NEW d \in Rel!Deployment, Rel!RejectDeployment(d) \/ Rel!Lease(d) PROVE AttestedInv'
  BY <1>2 DEF Rel!RejectDeployment, Rel!Lease, Rel!hubVars, InstalledOK, Attested, AgentOK, MakersOK
<1>3. ASSUME NEW d \in Rel!Deployment, Rel!OperatorLinks(d) PROVE AttestedInv'
  <2>1. d.source \in Sources
    BY DEF Rel!Deployment
  <2> QED
    BY <1>3, <2>1 DEF Rel!OperatorLinks, Rel!Links, Rel!hubVars, InstalledOK, Attested, AgentOK, MakersOK
<1>4. CASE Rel!BuildAndInstall
  <2>1. /\ DOMAIN release' = Sources /\ (\A s \in Sources : Attested(s)')
        /\ \A s \in Sources : release[s] # Null => release'[s] = release[s]
    <3>1. CASE Rel!Installs([manifest |-> operator, files |-> tree])
      BY <1>4, <3>1, InstallAttests DEF Rel!BuildAndInstall, MakersOK
    <3>2. CASE UNCHANGED release
      BY <3>2 DEF InstalledOK, Attested
    <3> QED
      BY <1>4, <3>1, <3>2 DEF Rel!BuildAndInstall
  <2> QED
    BY <1>4, <2>1 DEF Rel!BuildAndInstall, Rel!hubVars, InstalledOK, AgentOK, MakersOK
<1>5. CASE Rel!DriverInstalls
  <2>1. /\ DOMAIN release' = Sources /\ (\A s \in Sources : Attested(s)')
        /\ \A s \in Sources : release[s] # Null => release'[s] = release[s]
    BY <1>5, InstallAttests DEF Rel!DriverInstalls, MakersOK
  <2> QED
    BY <1>5, <2>1 DEF Rel!DriverInstalls, Rel!hubVars, InstalledOK, AgentOK, MakersOK
<1>6. CASE Rel!DriverRegisters \/ Rel!DriverActivates \/ Rel!DriverStops \/ Rel!RollbackConfiguration
  <2>1. UNCHANGED <<tree, operator, release, link, run, agent>>
    BY <1>6 DEF Rel!DriverRegisters, Rel!DriverActivates, Rel!DriverStops, Rel!RollbackConfiguration
  <2>2. MakersOK'
    <3>1. CASE Rel!DriverRegisters
      <4>1. PICK s \in Sources :
              driver' = [driver EXCEPT !.at = "registered", !.manifest = [source |-> s, config |-> config]]
        BY <3>1 DEF Rel!DriverRegisters
      <4> QED
        BY <2>1, <4>1 DEF MakersOK
    <3>2. CASE driver' = Rel!Idle
      BY <2>1, <3>2 DEF MakersOK, Rel!Idle
    <3> QED
      BY <1>6, <3>1, <3>2 DEF Rel!DriverActivates, Rel!DriverStops, Rel!RollbackConfiguration
  <2> QED
    BY <2>1, <2>2 DEF InstalledOK, Attested, AgentOK
<1>7. CASE Rel!DriverLinks
  BY <1>7 DEF Rel!DriverLinks, Rel!Links, Rel!hubVars, InstalledOK, Attested, AgentOK, MakersOK
<1>8. CASE Rel!AgentLoads \/ Rel!AgentVerifies \/ Rel!AgentExecutes
  <2>1. UNCHANGED <<tree, operator, driver, release, link, run>>
    BY <1>8 DEF Rel!AgentLoads, Rel!AgentVerifies, Rel!AgentExecutes
  <2>2. AgentOK'
    <3>1. CASE Rel!AgentLoads
      BY <2>1, <3>1 DEF Rel!AgentLoads, Rel!NoAgent, AgentOK
    <3>2. CASE Rel!AgentVerifies
      BY <2>1, <3>2 DEF Rel!AgentVerifies, InstalledOK, Attested, AgentOK
    <3>3. CASE Rel!AgentExecutes
      BY <2>1, <3>3 DEF Rel!AgentExecutes, Rel!ValidEnvelope, AgentOK
    <3> QED
      BY <1>8, <3>1, <3>2, <3>3
  <2> QED
    BY <2>1, <2>2 DEF InstalledOK, Attested, MakersOK
<1>9. CASE Rel!RunEnds
  <2>1. /\ UNCHANGED <<tree, operator, release, link>> /\ run' = Null /\ agent' = Rel!NoAgent
        /\ driver' = driver \/ driver' = [Rel!Idle EXCEPT !.at = "failed", !.run = run]
    BY <1>9 DEF Rel!RunEnds, Rel!Failed
  <2> QED
    BY <2>1 DEF InstalledOK, Attested, AgentOK, MakersOK, Rel!Idle, Rel!NoAgent
<1>10. CASE UNCHANGED Rel!vars
  BY <1>10 DEF Rel!vars, Rel!hubVars, InstalledOK, Attested, AgentOK, MakersOK
<1> QED
  BY <1>1, <1>2, <1>3, <1>4, <1>5, <1>6, <1>7, <1>8, <1>9, <1>10 DEF Rel!Next

(* A job is executed by the release it was leased under, from the files    *)
(* that were attested and with the configuration of its lease, for any     *)
(* sources and configurations and any number of the operator's changes:    *)
(* releases stay once installed, so neither the link's moves nor those of  *)
(* the database reach an agent that has read its manifest.                 *)
THEOREM AttestedCorrect ==
  ASSUME Null \notin Rel!Archive PROVE Rel!Spec => []Rel!RunsAttestedSource
<1>1. Rel!Init => AttestedInv
  BY AttestedInit
<1>2. AttestedInv /\ [Rel!Next]_(Rel!vars) => AttestedInv'
  BY AttestedStep
<1>3. AttestedInv => Rel!RunsAttestedSource
  BY DEF AttestedInv, InstalledOK, Attested, AgentOK, Rel!RunsAttestedSource
<1> QED
  BY <1>1, <1>2, <1>3, PTL DEF Rel!Spec

-----------------------------------------------------------------------------
(* The copies of a checkpoint.                                             *)

Copies == INSTANCE ArtifactStore

BuildFiles == Builds \subseteq Nat \ {Copies!Hub, Copies!Box}

Plans == [eligible : SUBSET Builds, seen : 0 .. MaxScans]
Rows == [plan : Plans, at : Builds, state : {"authorized", "deleted", "failed"}]
Steps == {"idle", "scanned", "planned", "cleared", "deleting", "deleted", "refused"}

(* The type invariant with whole records, as EXCEPT needs them.            *)
StoreTyped ==
  /\ Copies!TypeOK
  /\ cleaner \in [Cleaners -> [step : Steps, found : SUBSET Builds, plan : Plans \cup {Null},
                               left : SUBSET Builds]]
  /\ deletion \subseteq Rows

Gone(b) == \E d \in deletion : d.at = b

(* A build file enters the ledger when its run ends with it, or from an    *)
(* inventory that found it whole: before, it is nobody's copy.             *)
BuildOK(b) ==
  /\ run[b] # "ended" => b \notin at
  /\ run[b] = "none" => bytes[b] = "none"
  /\ run[b] = "live" => bytes[b] = "torn"

(* An inventory may be older than a deletion, which left its row.          *)
CleanerOK(c) ==
  /\ \A b \in cleaner[c].found :
        run[b] = "ended" /\ (bytes[b] = "whole" \/ (bytes[b] = "none" /\ Gone(b)))
  /\ cleaner[c].step \in {"deleting", "deleted", "refused"} => \A b \in cleaner[c].left : Gone(b)

(* The objects are only ever replaced by whole ones, and never deleted.    *)
ObjectsOK ==
  /\ \A l \in {Copies!Hub, Copies!Box} : bytes[l] # "torn"
  /\ \A m \in Movers : mover[m].step = "stored" => bytes[Copies!Target(m)] = "whole"

StoreInv ==
  /\ StoreTyped /\ Copies!RecordedAreWhole /\ ObjectsOK
  /\ \A b \in Builds : BuildOK(b)
  /\ \A c \in Cleaners : CleanerOK(c)

LEMMA LeastFile ==
  ASSUME NEW S, S \subseteq Nat, S # {} PROVE Copies!Min(S) \in S
<1> DEFINE Less == {p \in Nat \X Nat : p[1] < p[2]}
<1>1. IsWellFoundedOn(Less, Nat)
  BY NatLessThanWellFounded DEF OpToRel
<1> HIDE DEF Less
<1>2. PICK x \in S : \A y \in S : <<y, x>> \notin Less
  BY <1>1, WFMin
<1>3. ASSUME NEW y \in S PROVE x <= y
  <2>1. <<y, x>> \in Nat \X Nat /\ <<y, x>> \notin Less /\ x \in Int /\ y \in Int
    BY <1>2
  <2> QED
    BY <2>1 DEF Less
<1> QED
  BY <1>3 DEF Copies!Min

LEMMA StoreInit ==
  ASSUME BuildFiles, MaxTrouble \in Nat, MaxScans \in Nat, Copies!Init PROVE StoreInv
<1>1. StoreTyped
  BY DEF Copies!Init, StoreTyped, Copies!TypeOK, Copies!NoMove, Copies!Resting, Steps
<1>2. ObjectsOK /\ Copies!RecordedAreWhole
  BY DEF Copies!Init, ObjectsOK, Copies!RecordedAreWhole, Copies!NoMove, Copies!Locations
<1>3. /\ \A b \in Builds : BuildOK(b)
      /\ \A c \in Cleaners : CleanerOK(c)
  BY DEF Copies!Init, BuildOK, CleanerOK, Copies!Resting, Copies!Locations
<1> QED
  BY <1>1, <1>2, <1>3 DEF StoreInv

-----------------------------------------------------------------------------
(* A transfer writes objects alone, and whole ones.                        *)

TransferStep(m) ==
  /\ UNCHANGED <<run, cleaner, deletion>>
  /\ mover' \in [Movers -> [kind : {"put", "get", "ingest", Null}, from : Copies!Locations \cup {Null},
                            step : {"idle", "open", "new", "stored"}, temp : {"none", "torn", "whole"}]]
  /\ \A n \in Movers : n # m => mover'[n] = mover[n]
  /\ artifact' \in [row : {"none", "kept", "deleted"}, pinned : BOOLEAN, scans : 0 .. MaxScans]
  /\ trouble' \in 0 .. MaxTrouble
  /\ \/ bytes' = bytes
     \/ bytes' = [bytes EXCEPT ![Copies!Target(m)] = "whole"]
  /\ mover'[m].step = "stored" =>
       mover'[m].kind = mover[m].kind /\ bytes'[Copies!Target(m)] = "whole"
  /\ \/ at' = at
     \/ at' = at \cup {Copies!Target(m)} /\ mover[m].step = "stored"

LEMMA TransferIs ==
  ASSUME StoreInv, BuildFiles, MaxTrouble \in Nat, NEW m \in Movers, Copies!Transfer(m)
  PROVE  TransferStep(m)
<1> USE DEF TransferStep, StoreInv, StoreTyped, Copies!TypeOK, Copies!MoverAt, Copies!Abandon, Copies!NoMove
<1>0. Copies!Target(m) \in Copies!Locations
  BY DEF Copies!Target, Copies!Locations
<1>1. ASSUME NEW kind \in {"put", "get", "ingest"}, NEW from \in Copies!Locations \cup {Null},
             Copies!Begin(m, kind, from)
      PROVE  TransferStep(m)
  BY <1>1 DEF Copies!Begin
<1>2. CASE Copies!Materialize(m) \/ Copies!Retrieve(m) \/ Copies!Ingest(m)
  BY <1>1, <1>2 DEF Copies!Materialize, Copies!Retrieve, Copies!Ingest, Copies!Locations
<1>3. CASE Copies!AlreadyThere(m)
  BY <1>3 DEF Copies!AlreadyThere
<1>4. CASE Copies!Open(m)
  BY <1>4 DEF Copies!Open
<1>5. CASE Copies!Stream(m)
  BY <1>5 DEF Copies!Stream, Copies!WriteTemporary
<1>6. CASE Copies!Install(m)
  BY <1>0, <1>6 DEF Copies!Install
<1>7. CASE Copies!Refuse(m)
  BY <1>7 DEF Copies!Refuse
<1>8. CASE Copies!CutTransfer(m)
  BY <1>8 DEF Copies!CutTransfer, Copies!Trouble
<1>9. CASE Copies!RecordTransfer(m)
  <2>1. \/ at' = at \cup {Copies!Target(m)} /\ artifact' = [artifact EXCEPT !.row = Copies!Registered]
        \/ at' = at \cup {Copies!Target(m)} /\ artifact' = artifact
        \/ at' = at /\ artifact' = artifact
    BY <1>9 DEF Copies!RecordTransfer, Copies!Register, Copies!RecordLocation, Copies!Target
  <2> QED
    BY <1>9, <2>1 DEF Copies!RecordTransfer, Copies!Registered
<1> QED
  BY <1>2, <1>3, <1>4, <1>5, <1>6, <1>7, <1>8, <1>9 DEF Copies!Transfer

LEMMA TransferKeeps ==
  ASSUME StoreInv, BuildFiles, NEW m \in Movers, TransferStep(m) PROVE StoreInv'
<1>0. /\ Copies!Target(m) \in {Copies!Hub, Copies!Box} /\ Copies!Target(m) \notin Builds
      /\ Copies!Target(m) \in Copies!Locations /\ Builds \subseteq Copies!Locations
  BY DEF Copies!Target, BuildFiles, Copies!Locations
<1>1. /\ \A l \in Copies!Locations : bytes'[l] = bytes[l] \/ bytes'[l] = "whole"
      /\ \A b \in Builds : bytes'[b] = bytes[b] /\ (b \in at' <=> b \in at)
  BY <1>0 DEF StoreInv, StoreTyped, Copies!TypeOK, TransferStep
<1>2. StoreTyped'
  BY <1>0 DEF StoreInv, StoreTyped, Copies!TypeOK, TransferStep
<1>3. ObjectsOK'
  <2>1. ASSUME NEW n \in Movers, mover'[n].step = "stored" PROVE bytes'[Copies!Target(n)'] = "whole"
    <3>1. CASE n = m
      BY <2>1, <3>1 DEF TransferStep, Copies!Target
    <3>2. CASE n # m
      <4>1. Copies!Target(n)' = Copies!Target(n) /\ bytes[Copies!Target(n)] = "whole"
        BY <2>1, <3>2 DEF TransferStep, Copies!Target, StoreInv, ObjectsOK
      <4>2. Copies!Target(n) \in Copies!Locations
        BY DEF Copies!Target, Copies!Locations
      <4> QED
        BY <1>1, <4>1, <4>2
    <3> QED
      BY <3>1, <3>2
  <2>2. \A l \in {Copies!Hub, Copies!Box} : bytes'[l] # "torn"
    BY <1>1 DEF StoreInv, ObjectsOK, Copies!Locations
  <2> QED
    BY <2>1, <2>2 DEF ObjectsOK
<1>4. Copies!RecordedAreWhole'
  <2>1. \A l \in at' : l \in at \/ bytes'[l] = "whole"
    BY <1>0, <1>1 DEF TransferStep, StoreInv, ObjectsOK
  <2> QED
    BY <1>1, <2>1 DEF TransferStep, StoreInv, Copies!RecordedAreWhole, StoreTyped, Copies!TypeOK
<1>5. /\ \A b \in Builds : BuildOK(b)'
      /\ \A c \in Cleaners : CleanerOK(c)'
  BY <1>1 DEF TransferStep, StoreInv, StoreTyped, BuildOK, CleanerOK, Gone
<1> QED
  BY <1>2, <1>3, <1>4, <1>5 DEF StoreInv

-----------------------------------------------------------------------------
(* A run writes its own build file.                                        *)

LEMMA TrainingKeeps ==
  ASSUME StoreInv, BuildFiles, MaxTrouble \in Nat, NEW b \in Builds,
         Copies!StartTraining(b) \/ Copies!FinishTraining(b) \/ Copies!LoseTraining(b)
  PROVE  StoreInv'
<1>1. PICK content \in {"torn", "whole"}, now \in {"live", "ended"} :
        /\ bytes' = [bytes EXCEPT ![b] = content] /\ run' = [run EXCEPT ![b] = now]
        /\ UNCHANGED <<mover, cleaner, deletion>>
        /\ \/ now = "live" /\ run[b] = "none" /\ content = "torn" /\ UNCHANGED <<artifact, at>>
           \/ now = "ended" /\ run[b] = "live" /\ UNCHANGED <<artifact, at>>
           \/ now = "ended" /\ run[b] = "live" /\ content = "whole" /\ Copies!Register(b)
        /\ trouble' \in 0 .. MaxTrouble
  BY DEF Copies!StartTraining, Copies!FinishTraining, Copies!LoseTraining, Copies!Trouble, StoreInv,
     StoreTyped, Copies!TypeOK
<1>0. /\ b \in Copies!Locations /\ b \notin {Copies!Hub, Copies!Box} /\ b \notin at
      /\ \A m \in Movers : Copies!Target(m) # b /\ Copies!Target(m) \in Copies!Locations
      /\ Builds \subseteq Copies!Locations
  BY <1>1 DEF BuildFiles, Copies!Locations, Copies!Target, StoreInv, BuildOK
<1>2. /\ \A l \in Copies!Locations : l # b => bytes'[l] = bytes[l]
      /\ \A x \in Builds : x # b => run'[x] = run[x]
      /\ bytes'[b] = content /\ run'[b] = now
      /\ at' = at \/ (at' = at \cup {b} /\ content = "whole" /\ now = "ended")
  BY <1>0, <1>1 DEF StoreInv, StoreTyped, Copies!TypeOK, Copies!Register
<1>3. StoreTyped'
  <2>1. /\ artifact' \in [row : {"none", "kept", "deleted"}, pinned : BOOLEAN, scans : 0 .. MaxScans]
        /\ at' \subseteq Copies!Locations
    BY <1>0, <1>1 DEF Copies!Register, Copies!Registered, StoreInv, StoreTyped, Copies!TypeOK
  <2> QED
    BY <1>0, <1>1, <2>1 DEF StoreInv, StoreTyped, Copies!TypeOK
<1>4. ObjectsOK'
  BY <1>0, <1>1, <1>2 DEF StoreInv, ObjectsOK, Copies!Locations, Copies!Target
<1>5. Copies!RecordedAreWhole'
  BY <1>0, <1>1, <1>2 DEF StoreInv, Copies!RecordedAreWhole, StoreTyped, Copies!TypeOK
<1>6. \A x \in Builds : BuildOK(x)'
  BY <1>0, <1>1, <1>2 DEF StoreInv, BuildOK
<1>7. ASSUME NEW c \in Cleaners PROVE CleanerOK(c)'
  <2>1. b \notin cleaner[c].found /\ cleaner[c].found \subseteq Builds
    BY <1>1 DEF StoreInv, CleanerOK, StoreTyped, Copies!TypeOK
  <2> QED
    BY <1>0, <1>1, <1>2, <2>1 DEF StoreInv, CleanerOK, Gone
<1> QED
  BY <1>3, <1>4, <1>5, <1>6, <1>7 DEF StoreInv

-----------------------------------------------------------------------------
(* A clean-up reads inventories into the ledger, and deletes a build file  *)
(* after the row that authorizes it.                                       *)

(* What a step of c makes of its own record (x) and of the files.          *)
CleanStep(c, x) ==
  /\ UNCHANGED <<run, mover>>
  /\ artifact' \in [row : {"none", "kept", "deleted"}, pinned : BOOLEAN, scans : 0 .. MaxScans]
  /\ trouble' \in 0 .. MaxTrouble
  /\ cleaner' = [cleaner EXCEPT ![c] = x]
  /\ x \in [step : Steps, found : SUBSET Builds, plan : Plans \cup {Null}, left : SUBSET Builds]
  /\ deletion' \subseteq Rows
  /\ \A b \in Builds : Gone(b) => Gone(b)'
  /\ \/ bytes' = bytes
     \/ \E b \in Builds : Gone(b) /\ bytes[b] = "whole" /\ bytes' = [bytes EXCEPT ![b] = "none"]
  /\ at' \subseteq at \cup cleaner[c].found
  /\ \/ x.found \subseteq cleaner[c].found
     \/ \A b \in x.found : run[b] = "ended" /\ bytes[b] = "whole" /\ UNCHANGED bytes
  /\ \/ x.step \notin {"deleting", "deleted", "refused"}
     \/ cleaner[c].step \in {"deleting", "deleted"} /\ x.left \subseteq cleaner[c].left
     \/ \A b \in x.left : Gone(b)'

LEMMA SettleKeeps ==
  ASSUME deletion \subseteq Rows, NEW d \in deletion, NEW state \in {"deleted", "failed"},
         Copies!Settle(d, state)
  PROVE  deletion' \subseteq Rows /\ \A b \in Builds : Gone(b) => Gone(b)'
<1>1. [d EXCEPT !.state = state] \in Rows /\ [d EXCEPT !.state = state].at = d.at
  BY DEF Rows
<1>2. deletion' = (deletion \ {d}) \cup {[d EXCEPT !.state = state]}
  BY DEF Copies!Settle
<1> HIDE DEF Rows
<1> QED
  BY <1>1, <1>2 DEF Gone

LEMMA CleanIs ==
  ASSUME StoreInv, BuildFiles, MaxTrouble \in Nat, MaxScans \in Nat, NEW c \in Cleaners, Copies!Clean(c)
  PROVE  \E x : CleanStep(c, x)
<1> DEFINE Records == [step : Steps, found : SUBSET Builds, plan : Plans \cup {Null}, left : SUBSET Builds]
<1>0. /\ cleaner[c] \in Records /\ cleaner[c].found \subseteq Builds /\ cleaner[c].left \subseteq Builds
      /\ deletion \subseteq Rows /\ Copies!Resting \in Records
  BY DEF StoreInv, StoreTyped, Copies!Resting, Steps
<1>t. /\ artifact \in [row : {"none", "kept", "deleted"}, pinned : BOOLEAN, scans : 0 .. MaxScans]
      /\ trouble \in 0 .. MaxTrouble /\ bytes \in [Copies!Locations -> {"none", "torn", "whole"}]
      /\ run \in [Builds -> {"none", "live", "ended"}]
  BY DEF StoreInv, StoreTyped, Copies!TypeOK
<1>p. Copies!RetentionInventory \in Plans
  BY <1>t DEF Copies!RetentionInventory, Plans
<1> DEFINE Quietly(x) == /\ UNCHANGED <<artifact, at, bytes, run, mover, deletion>> /\ trouble' \in 0 .. MaxTrouble
                         /\ cleaner' = [cleaner EXCEPT ![c] = x] /\ x \in Records
<1>q. ASSUME NEW x, Quietly(x), x.found \subseteq cleaner[c].found,
             \/ x.step \notin {"deleting", "deleted", "refused"}
             \/ cleaner[c].step \in {"deleting", "deleted"} /\ x.left \subseteq cleaner[c].left
      PROVE  CleanStep(c, x)
  BY <1>0, <1>t, <1>q DEF CleanStep, Gone
<1>1. CASE Copies!BuildInventory(c)
  <2> DEFINE x == [cleaner[c] EXCEPT !.step = "scanned", !.found = {b \in Builds : bytes[b] = "whole"}]
  <2>1. /\ cleaner' = [cleaner EXCEPT ![c] = x] /\ x \in Records /\ x.step = "scanned"
        /\ \A b \in x.found : bytes[b] = "whole" /\ run[b] # "live"
        /\ UNCHANGED <<artifact, at, bytes, run, mover, deletion, trouble>>
    BY <1>0, <1>1 DEF Copies!BuildInventory, Copies!LiveRun, Steps
  <2>2. \A b \in x.found : run[b] = "ended"
    BY <1>t, <2>1 DEF StoreInv, BuildOK
  <2> HIDE DEF x
  <2>3. CleanStep(c, x)
    BY <1>0, <1>t, <2>1, <2>2 DEF CleanStep, Gone
  <2> QED
    BY <2>3
<1>2. CASE Copies!ReconcileInventory(c)
  <2> DEFINE file == Copies!Min(cleaner[c].found)
             x == [cleaner[c] EXCEPT !.found = @ \ {file}]
  <2>0. file \in cleaner[c].found
    BY <1>0, <1>2, LeastFile DEF Copies!ReconcileInventory, BuildFiles
  <2>1. /\ cleaner' = [cleaner EXCEPT ![c] = x] /\ x \in Records /\ x.step = "scanned"
        /\ x.found \subseteq cleaner[c].found
        /\ at' = at \cup {file} /\ UNCHANGED <<bytes, run, mover, deletion, trouble>>
    BY <1>0, <1>2 DEF Copies!ReconcileInventory
  <2>2. artifact' \in [row : {"none", "kept", "deleted"}, pinned : BOOLEAN, scans : 0 .. MaxScans]
    <3>1. \E n \in {artifact.scans, artifact.scans + 1} :
             artifact' = [artifact EXCEPT !.row = Copies!Registered, !.scans = n]
      BY <1>2 DEF Copies!ReconcileInventory
    <3>2. artifact.scans + 1 \in 0 .. MaxScans /\ artifact.scans \in 0 .. MaxScans
      BY <1>2, <1>t DEF Copies!ReconcileInventory
    <3>3. Copies!Registered \in {"none", "kept", "deleted"}
      BY <1>t DEF Copies!Registered
    <3> QED
      BY <1>t, <3>1, <3>2, <3>3
  <2> HIDE DEF x, file
  <2>3. CleanStep(c, x)
    BY <1>0, <1>t, <2>0, <2>1, <2>2 DEF CleanStep, Gone
  <2> QED
    BY <2>3
<1>3. CASE Copies!Preview(c)
  <2> DEFINE x == [cleaner[c] EXCEPT !.step = "planned", !.plan = Copies!RetentionInventory]
  <2>1. Quietly(x) /\ x.found = cleaner[c].found /\ x.step = "planned"
    BY <1>0, <1>t, <1>p, <1>3 DEF Copies!Preview, Steps
  <2> HIDE DEF x
  <2> QED
    BY <1>q, <2>1
<1>4. ASSUME Copies!Rest(c), UNCHANGED <<artifact, at, bytes, run, mover, deletion>>, trouble' \in 0 .. MaxTrouble
      PROVE  CleanStep(c, Copies!Resting)
  <2>1. Quietly(Copies!Resting) /\ Copies!Resting.found = {} /\ Copies!Resting.step = "idle"
    BY <1>0, <1>4 DEF Copies!Rest, Copies!Resting
  <2> QED
    BY <1>q, <2>1
<1>5. ASSUME NEW step \in Steps, Copies!CleanerAt(c, step), UNCHANGED <<artifact, at, bytes, run, mover, deletion>>,
             trouble' \in 0 .. MaxTrouble,
             step \notin {"deleting", "deleted", "refused"} \/ cleaner[c].step \in {"deleting", "deleted"}
      PROVE  \E x : CleanStep(c, x)
  <2> DEFINE x == [cleaner[c] EXCEPT !.step = step]
  <2>1. /\ Quietly(x) /\ x.found = cleaner[c].found /\ x.step = step /\ x.left = cleaner[c].left
    BY <1>0, <1>5 DEF Copies!CleanerAt
  <2> HIDE DEF x
  <2> QED
    BY <1>q, <1>5, <2>1
<1>6. CASE Copies!Apply(c)
  BY <1>4, <1>5, <1>6, <1>t DEF Copies!Apply, Steps
<1>7. CASE Copies!AuthorizePlan(c)
  <2>1. CASE Copies!RetentionInventory # cleaner[c].plan
    BY <1>4, <1>7, <1>t, <2>1 DEF Copies!AuthorizePlan
  <2>2. CASE Copies!RetentionInventory = cleaner[c].plan
    <3> DEFINE plan == cleaner[c].plan
               x == [cleaner[c] EXCEPT !.step = "deleting", !.left = plan.eligible]
    <3>1. plan \in Plans /\ plan.eligible \subseteq Builds
      BY <1>p, <2>2 DEF Plans
    <3>2. /\ cleaner' = [cleaner EXCEPT ![c] = x] /\ x \in Records /\ x.found = cleaner[c].found
          /\ x.left = plan.eligible /\ UNCHANGED <<artifact, at, bytes, run, mover, trouble>>
      BY <1>0, <1>7, <2>2, <3>1 DEF Copies!AuthorizePlan, Steps
    <3>3. deletion' = deletion \cup {[plan |-> plan, at |-> b, state |-> "authorized"] :
                                       b \in {e \in plan.eligible : Copies!Intent(c, e) = {}}}
      BY <1>7, <2>2 DEF Copies!AuthorizePlan
    <3>4. deletion' \subseteq Rows /\ deletion \subseteq deletion'
      BY <1>0, <3>1, <3>3 DEF Rows
    <3>5. ASSUME NEW b \in plan.eligible PROVE Gone(b)'
      <4>1. CASE Copies!Intent(c, b) = {}
        <5>1. [plan |-> plan, at |-> b, state |-> "authorized"] \in deletion'
          BY <3>3, <4>1
        <5> QED
          BY <5>1 DEF Gone
      <4>2. CASE Copies!Intent(c, b) # {}
        BY <3>4, <4>2 DEF Copies!Intent, Gone
      <4> QED
        BY <4>1, <4>2
    <3> HIDE DEF x, plan
    <3>6. CleanStep(c, x)
      BY <1>0, <1>t, <3>2, <3>4, <3>5 DEF CleanStep, Gone
    <3> QED
      BY <3>6
  <2> QED
    BY <2>1, <2>2
<1>8. CASE Copies!DeleteArtifact(c)
  <2>0. Copies!Item(c) \in cleaner[c].left
    BY <1>0, <1>8, LeastFile DEF Copies!DeleteArtifact, Copies!Item, BuildFiles
  <2>1. CASE bytes[Copies!Item(c)] = "whole"
    <3> DEFINE x == [cleaner[c] EXCEPT !.step = "deleted"]
    <3>1. /\ cleaner' = [cleaner EXCEPT ![c] = x] /\ x \in Records /\ x.found = cleaner[c].found
          /\ x.left = cleaner[c].left /\ bytes' = [bytes EXCEPT ![Copies!Item(c)] = "none"]
          /\ UNCHANGED <<artifact, at, run, mover, deletion, trouble>> /\ cleaner[c].step = "deleting"
      BY <1>0, <1>8, <2>1 DEF Copies!DeleteArtifact, Copies!CleanerAt, Steps
    <3>2. Copies!Item(c) \in Builds /\ Gone(Copies!Item(c))
      BY <1>0, <2>0, <3>1 DEF StoreInv, CleanerOK
    <3> HIDE DEF x
    <3>3. CleanStep(c, x)
      BY <1>0, <1>t, <2>1, <3>1, <3>2 DEF CleanStep, Gone
    <3> QED
      BY <3>3
  <2>2. CASE bytes[Copies!Item(c)] # "whole"
    BY <1>5, <1>8, <1>t, <2>2 DEF Copies!DeleteArtifact, Steps
  <2> QED
    BY <2>1, <2>2
<1>9. CASE Copies!LoseDeletionAnswer(c)
  BY <1>5, <1>9, <1>t DEF Copies!LoseDeletionAnswer, Copies!Trouble, Steps
<1>10. CASE Copies!RecordDeletion(c)
  <2> DEFINE file == Copies!Item(c)
             x == [cleaner[c] EXCEPT !.step = "deleting", !.left = @ \ {file}]
  <2>1. CASE Copies!CleanerAt(c, "refused") /\ UNCHANGED <<artifact, at, deletion>>
    BY <1>5, <1>10, <1>t, <2>1 DEF Copies!RecordDeletion, Steps
  <2>2. ASSUME NEW d \in Copies!Intent(c, file), at' = at \ {file}, Copies!Settle(d, "deleted"),
               artifact' = [artifact EXCEPT !.row = IF at = {file} THEN "deleted" ELSE @],
               cleaner' = [cleaner EXCEPT ![c] = x]
        PROVE  CleanStep(c, x)
    <3>1. /\ x \in Records /\ x.found = cleaner[c].found /\ x.left \subseteq cleaner[c].left
          /\ cleaner[c].step = "deleted" /\ UNCHANGED <<bytes, run, mover, trouble>>
      BY <1>0, <1>10 DEF Copies!RecordDeletion, Steps
    <3>2. d \in deletion
      BY DEF Copies!Intent
    <3>3. deletion' \subseteq Rows /\ \A b \in Builds : Gone(b) => Gone(b)'
      BY <1>0, <2>2, <3>2, SettleKeeps
    <3>4. artifact' \in [row : {"none", "kept", "deleted"}, pinned : BOOLEAN, scans : 0 .. MaxScans]
      BY <1>t, <2>2
    <3> HIDE DEF x
    <3> QED
      BY <1>t, <2>2, <3>1, <3>3, <3>4 DEF CleanStep
  <2> QED
    BY <1>10, <2>1, <2>2 DEF Copies!RecordDeletion
<1>11. CASE Copies!FailDeletion(c)
  <2>1. Copies!Rest(c) /\ UNCHANGED <<artifact, at, bytes, run, mover, trouble>>
    BY <1>11 DEF Copies!FailDeletion
  <2>2. CASE UNCHANGED deletion
    BY <1>4, <1>t, <2>1, <2>2
  <2>3. ASSUME NEW d \in deletion, Copies!Settle(d, "failed") PROVE CleanStep(c, Copies!Resting)
    <3>1. deletion' \subseteq Rows /\ \A b \in Builds : Gone(b) => Gone(b)'
      BY <1>0, <2>3, SettleKeeps
    <3>2. Copies!Resting.step = "idle" /\ Copies!Resting.found = {}
      BY DEF Copies!Resting
    <3> QED
      BY <1>0, <1>t, <2>1, <3>1, <3>2 DEF CleanStep, Copies!Rest
  <2> QED
    BY <1>11, <2>2, <2>3 DEF Copies!FailDeletion, Copies!Intent
<1>12. CASE Copies!FinishCleanup(c) \/ Copies!CrashCleaner(c)
  BY <1>4, <1>12, <1>t DEF Copies!FinishCleanup, Copies!CrashCleaner, Copies!Trouble
<1> QED
  BY <1>1, <1>2, <1>3, <1>6, <1>7, <1>8, <1>9, <1>10, <1>11, <1>12 DEF Copies!Clean

LEMMA CleanKeeps ==
  ASSUME StoreInv, BuildFiles, NEW c \in Cleaners, NEW x, CleanStep(c, x) PROVE StoreInv'
<1>0. /\ Builds \subseteq Copies!Locations /\ Copies!Hub \notin Builds /\ Copies!Box \notin Builds
      /\ Copies!Hub \in Copies!Locations /\ Copies!Box \in Copies!Locations
      /\ cleaner[c].found \subseteq Builds
  BY DEF BuildFiles, Copies!Locations, StoreInv, StoreTyped
<1>1. /\ \A l \in Copies!Locations :
            bytes'[l] = bytes[l] \/ (l \in Builds /\ Gone(l) /\ bytes[l] = "whole" /\ bytes'[l] = "none")
      /\ bytes' \in [Copies!Locations -> {"none", "torn", "whole"}]
      /\ \A b \in Builds : Gone(b) => Gone(b)'
  BY <1>0 DEF CleanStep, StoreInv, StoreTyped, Copies!TypeOK
<1>2. cleaner'[c] = x /\ \A e \in Cleaners : e # c => cleaner'[e] = cleaner[e]
  BY DEF CleanStep, StoreInv, StoreTyped
<1>3. StoreTyped'
  <2>1. /\ cleaner' \in [Cleaners -> [step : Steps, found : SUBSET Builds, plan : Plans \cup {Null},
                                      left : SUBSET Builds]]
        /\ deletion' \subseteq Rows /\ at' \subseteq Copies!Locations
    BY <1>0 DEF CleanStep, StoreInv, StoreTyped, Copies!TypeOK
  <2>2. /\ \A e \in Cleaners : /\ cleaner'[e].step \in Steps
                               /\ cleaner'[e].found \subseteq Builds /\ cleaner'[e].left \subseteq Builds
        /\ \A d \in deletion' : d.at \in Builds /\ d.state \in {"authorized", "deleted", "failed"}
    BY <2>1 DEF Rows
  <2> QED
    BY <1>1, <2>1, <2>2 DEF CleanStep, StoreInv, StoreTyped, Copies!TypeOK, Steps
<1>4. ObjectsOK'
  <2>1. \A m \in Movers : /\ Copies!Target(m)' = Copies!Target(m)
                          /\ Copies!Target(m) \in {Copies!Hub, Copies!Box}
    BY DEF CleanStep, Copies!Target
  <2> QED
    BY <1>0, <1>1, <2>1 DEF CleanStep, StoreInv, ObjectsOK
<1>5. \A b \in cleaner[c].found : run[b] = "ended" /\ (bytes'[b] = "whole" \/ (bytes'[b] = "none" /\ Gone(b)'))
  BY <1>0, <1>1 DEF StoreInv, CleanerOK
<1>6. Copies!RecordedAreWhole'
  <2>1. ASSUME NEW l \in at, l \in Copies!Locations
        PROVE  bytes'[l] = "whole" \/ (bytes'[l] = "none" /\ Gone(l)')
    <3>1. bytes[l] = "whole" \/ (bytes[l] = "none" /\ Gone(l))
      BY DEF StoreInv, Copies!RecordedAreWhole, Gone
    <3>2. Gone(l) => l \in Builds
      BY DEF Gone, Rows, StoreInv, StoreTyped
    <3> QED
      BY <1>1, <2>1, <3>1, <3>2
  <2>2. at \subseteq Copies!Locations /\ at' \subseteq at \cup cleaner[c].found
    BY DEF CleanStep, StoreInv, StoreTyped, Copies!TypeOK
  <2>3. \A l \in at' : bytes'[l] = "whole" \/ (bytes'[l] = "none" /\ Gone(l)')
    BY <1>5, <2>1, <2>2
  <2> QED
    BY <2>3 DEF Copies!RecordedAreWhole, Gone
<1>7. ASSUME NEW b \in Builds PROVE BuildOK(b)'
  BY <1>0, <1>1, <1>5 DEF CleanStep, StoreInv, BuildOK, CleanerOK
<1>8. ASSUME NEW e \in Cleaners PROVE CleanerOK(e)'
  <2>1. CleanerOK(e) /\ cleaner[e].found \subseteq Builds /\ cleaner[e].left \subseteq Builds
    BY DEF StoreInv, StoreTyped
  <2>2. CASE e # c
    BY <1>0, <1>1, <1>2, <2>1, <2>2 DEF CleanStep, CleanerOK
  <2>3. CASE e = c
    <3>1. \A b \in x.found : run[b] = "ended" /\ (bytes'[b] = "whole" \/ (bytes'[b] = "none" /\ Gone(b)'))
      BY <1>5 DEF CleanStep
    <3>2. x.step \in {"deleting", "deleted", "refused"} => \A b \in x.left : Gone(b)'
      BY <1>1, <2>1, <2>3 DEF CleanStep, CleanerOK
    <3> QED
      BY <1>2, <2>3, <3>1, <3>2 DEF CleanStep, CleanerOK
  <2> QED
    BY <2>2, <2>3
<1> QED
  BY <1>3, <1>4, <1>6, <1>7, <1>8 DEF StoreInv

LEMMA StoreStep ==
  ASSUME BuildFiles, MaxTrouble \in Nat, MaxScans \in Nat, StoreInv, [Copies!Next]_(Copies!vars)
  PROVE  StoreInv'
<1>1. ASSUME NEW m \in Movers, Copies!Transfer(m) PROVE StoreInv'
  BY <1>1, TransferIs, TransferKeeps
<1>2. ASSUME NEW b \in Builds, Copies!StartTraining(b) \/ Copies!FinishTraining(b) \/ Copies!LoseTraining(b)
      PROVE  StoreInv'
  BY <1>2, TrainingKeeps
<1>3. ASSUME NEW c \in Cleaners, Copies!Clean(c) PROVE StoreInv'
  BY <1>3, CleanIs, CleanKeeps
<1>4. CASE Copies!Protect \/ Copies!Release
  <2>1. /\ UNCHANGED <<at, bytes, run, mover, cleaner, deletion, trouble>>
        /\ \E pin \in BOOLEAN : artifact' = [artifact EXCEPT !.pinned = pin]
    BY <1>4 DEF Copies!Protect, Copies!Release
  <2>2. StoreTyped'
    BY <2>1 DEF StoreInv, StoreTyped, Copies!TypeOK
  <2> QED
    BY <2>1, <2>2 DEF StoreInv, ObjectsOK, Copies!Target, Copies!RecordedAreWhole, BuildOK, CleanerOK, Gone
<1>5. CASE UNCHANGED Copies!vars
  BY <1>5 DEF Copies!vars, StoreInv, StoreTyped, Copies!TypeOK, ObjectsOK, Copies!Target,
     Copies!RecordedAreWhole, BuildOK, CleanerOK, Gone
<1> QED
  BY <1>1, <1>2, <1>3, <1>4, <1>5 DEF Copies!Next

(* A copy the ledger offers holds the whole checkpoint, for any number of  *)
(* build files, transfers and clean-ups: only a build file whose deletion  *)
(* was authorized may be missing, and the objects never are.               *)
THEOREM CopiesCorrect ==
  ASSUME BuildFiles, MaxTrouble \in Nat, MaxScans \in Nat
  PROVE  Copies!Spec => [](Copies!TypeOK /\ Copies!RecordedAreWhole)
<1>1. Copies!Init => StoreInv
  BY StoreInit
<1>2. StoreInv /\ [Copies!Next]_(Copies!vars) => StoreInv'
  BY StoreStep
<1>3. StoreInv => Copies!TypeOK /\ Copies!RecordedAreWhole
  BY DEF StoreInv, StoreTyped
<1> QED
  BY <1>1, <1>2, <1>3, PTL DEF Copies!Spec
=============================================================================
