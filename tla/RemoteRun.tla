----------------------------- MODULE RemoteRun -----------------------------
(***************************************************************************)
(* The attempts of one GPU job on the trainbox: a lane of the hub talks    *)
(* over SSH to an agent process, which starts the GPU work in a child.     *)
(* The ledger may end a run (cancellation, expiry) and lease the job again *)
(* while the processes of the ended run are still there.  The vision API   *)
(* of the trainbox uses the same GPUs.                                     *)
(***************************************************************************)
EXTENDS Naturals

CONSTANTS
    MaxRuns,     \* bound: attempts of the job
    MaxTrouble,  \* bound: lost connections, killed agents, ends of the daemon or the vision server
    Null

VARIABLES
    run,      \* run[r]: the ledger's status of attempt r
    lane,     \* lane[r]: where execute_and_record is, or what it returned
    wire,     \* wire[r]: the SSH connection
    agent,    \* agent[r]: the agent process, or the answer it wrote
    child,    \* child[r]: the GPU process of the agent
    lock,     \* who holds gpu-resource.lock: a run, the server of the vision API, or Null
    vision,   \* inference processes of the vision API: of the server, and left by earlier ones
    trouble

vars == <<run, lane, wire, agent, child, lock, vision, trouble>>

Runs == 1 .. MaxRuns
Server == 0
Working == {"waiting", "checking", "cleared", "executing"}
Ended == {"succeeded", "failed", "cancelled", "expired"}

TypeOK ==
    /\ run \in [Runs -> {"none", "running"} \cup Ended]
    /\ lane \in [Runs -> {"none", "waiting", "received", "succeeded", "failed", "cancelled",
                          "raised", "lost"}]
    /\ wire \in [Runs -> {"none", "open", "cut"}]
    /\ agent \in [Runs -> {"none", "ok", "error", "dead"} \cup Working]
    /\ child \in [Runs -> {"none", "booting", "guarded", "loaded", "dying", "gone"}]
    /\ lock \in Runs \cup {Server, Null}
    /\ vision \in [own : {"none", "booting", "loaded"}, orphan : {"none", "booting", "loaded"}]
    /\ trouble \in 0 .. MaxTrouble

Init ==
    /\ run = [r \in Runs |-> "none"] /\ lane = run /\ wire = run /\ agent = run /\ child = run
    /\ lock = Null /\ vision = [own |-> "none", orphan |-> "none"] /\ trouble = 0

-----------------------------------------------------------------------------
(* The ledger.                                                             *)

\* A refused envelope ends the run before it reaches the machine.
LeaseNext(r) ==
    /\ run[r] = "none"
    /\ \A s \in 1 .. r - 1 : run[s] \in {"failed", "expired"}
    /\ \/ /\ run' = [run EXCEPT ![r] = "running"]
          /\ lane' = [lane EXCEPT ![r] = "waiting"] /\ wire' = [wire EXCEPT ![r] = "open"]
       \/ /\ run' = [run EXCEPT ![r] = "failed"]
          /\ lane' = [lane EXCEPT ![r] = "raised"] /\ UNCHANGED wire
    /\ UNCHANGED <<agent, child, lock, vision, trouble>>

Cancel(r) ==
    /\ run[r] = "running" /\ run' = [run EXCEPT ![r] = "cancelled"]
    /\ UNCHANGED <<lane, wire, agent, child, lock, vision, trouble>>

Expire(r) ==
    /\ run[r] = "running" /\ run' = [run EXCEPT ![r] = "expired"]
    /\ UNCHANGED <<lane, wire, agent, child, lock, vision, trouble>>

-----------------------------------------------------------------------------
(* The lane.                                                               *)

\* finish_run refuses a run that has ended, and then its failure too.
Finish(r, status) ==
    IF run[r] = "running"
    THEN run' = [run EXCEPT ![r] = status] /\ lane' = [lane EXCEPT ![r] = status]
    ELSE lane' = [lane EXCEPT ![r] = "raised"] /\ UNCHANGED run

HangUp(r) == wire' = [wire EXCEPT ![r] = "cut"]

\* At a heartbeat the lane learns that the run was cancelled, or that its lease was taken.
Poll(r) ==
    /\ lane[r] = "waiting" /\ run[r] \in {"cancelled", "expired"}
    /\ lane' = [lane EXCEPT ![r] = IF run[r] = "cancelled" THEN "cancelled" ELSE "raised"]
    /\ HangUp(r) /\ UNCHANGED <<run, agent, child, lock, vision, trouble>>

\* The job's bound passes, or ssh ends without an answer.
GiveUp(r) ==
    /\ lane[r] = "waiting" /\ HangUp(r) /\ Finish(r, "failed")
    /\ UNCHANGED <<agent, child, lock, vision, trouble>>

Receive(r) ==
    /\ lane[r] = "waiting" /\ wire[r] = "open" /\ agent[r] \in {"ok", "error"}
    /\ lane' = [lane EXCEPT ![r] = IF run[r] = "cancelled" THEN "cancelled" ELSE "received"]
    /\ HangUp(r) /\ UNCHANGED <<run, agent, child, lock, vision, trouble>>

Record(r) ==
    /\ lane[r] = "received"
    /\ IF agent[r] = "ok" /\ run[r] = "cancelled"
       THEN lane' = [lane EXCEPT ![r] = "cancelled"] /\ UNCHANGED run
       ELSE Finish(r, IF agent[r] = "ok" THEN "succeeded" ELSE "failed")
    /\ UNCHANGED <<wire, agent, child, lock, vision, trouble>>

DaemonDies ==
    LET open == {r \in Runs : lane[r] \in {"waiting", "received"}} IN
    /\ open # {} /\ trouble < MaxTrouble /\ trouble' = trouble + 1
    /\ lane' = [r \in Runs |-> IF r \in open THEN "lost" ELSE lane[r]]
    /\ wire' = [r \in Runs |-> IF r \in open THEN "cut" ELSE wire[r]]
    /\ UNCHANGED <<run, agent, child, lock, vision>>

-----------------------------------------------------------------------------
(* The agent.                                                              *)

LinkLost(r) ==
    /\ wire[r] = "open" /\ trouble < MaxTrouble /\ trouble' = trouble + 1
    /\ HangUp(r) /\ UNCHANGED <<run, lane, agent, child, lock, vision>>

Accept(r) ==
    /\ wire[r] = "open" /\ agent[r] = "none" /\ agent' = [agent EXCEPT ![r] = "waiting"]
    /\ UNCHANGED <<run, lane, wire, child, lock, vision, trouble>>

TakeLock(r) ==
    /\ agent[r] = "waiting" /\ lock = Null /\ lock' = r
    /\ agent' = [agent EXCEPT ![r] = "checking"]
    /\ UNCHANGED <<run, lane, wire, child, vision, trouble>>

\* The context that holds the lock is left before the answer is written.
Answer(r, answer) == agent' = [agent EXCEPT ![r] = answer] /\ lock' = Null

Occupying == {"loaded", "dying"}
MemoryFree ==
    /\ \A r \in Runs : child[r] \notin Occupying
    /\ vision.own # "loaded" /\ vision.orphan # "loaded"

Preflight(r) ==
    /\ agent[r] = "checking"
    /\ IF MemoryFree THEN agent' = [agent EXCEPT ![r] = "cleared"] /\ UNCHANGED lock
                     ELSE Answer(r, "error")
    /\ UNCHANGED <<run, lane, wire, child, vision, trouble>>

\* The envelope, the input or an artifact is refused before the child is started.
Refuse(r) ==
    /\ agent[r] = "cleared" /\ Answer(r, "error")
    /\ UNCHANGED <<run, lane, wire, child, vision, trouble>>

Start(r) ==
    /\ agent[r] = "cleared" /\ agent' = [agent EXCEPT ![r] = "executing"]
    /\ child' = [child EXCEPT ![r] = "booting"]
    /\ UNCHANGED <<run, lane, wire, lock, vision, trouble>>

ChildExits(r) ==
    /\ agent[r] = "executing" /\ child[r] \in {"booting", "guarded", "loaded"}
    /\ child' = [child EXCEPT ![r] = "gone"]
    /\ \E answer \in IF child[r] = "loaded" THEN {"ok", "error"} ELSE {"error"} : Answer(r, answer)
    /\ UNCHANGED <<run, lane, wire, vision, trouble>>

-----------------------------------------------------------------------------
(* The child, and the end of its agent.                                    *)

\* _die_with_agent: the parent-death signal; a parent that is gone already ends it too.
ChildGuards(r) ==
    /\ child[r] = "booting"
    /\ child' = [child EXCEPT ![r] = IF agent[r] = "executing" THEN "guarded" ELSE "gone"]
    /\ UNCHANGED <<run, lane, wire, agent, lock, vision, trouble>>

ChildLoads(r) ==
    /\ child[r] = "guarded" /\ child' = [child EXCEPT ![r] = "loaded"]
    /\ UNCHANGED <<run, lane, wire, agent, lock, vision, trouble>>

ChildReleases(r) ==
    /\ child[r] = "dying" /\ child' = [child EXCEPT ![r] = "gone"]
    /\ UNCHANGED <<run, lane, wire, agent, lock, vision, trouble>>

\* A mutant: the script is run without cortex_runtime.py.
LivesOn(c) == c

\* What the end of the agent makes of its child.
Orphaned(c) == IF c = "loaded" THEN "dying" ELSE IF c = "guarded" THEN "gone" ELSE c

AgentEnds(r) ==
    /\ agent' = [agent EXCEPT ![r] = "dead"]
    /\ lock' = IF lock = r THEN Null ELSE lock
    /\ child' = [child EXCEPT ![r] = Orphaned(@)]

\* The agent finds the connection gone when it next writes to it, even while it waits for the lock.
Watchdog(r) ==
    /\ wire[r] = "cut" /\ agent[r] \in Working /\ AgentEnds(r)
    /\ UNCHANGED <<run, lane, wire, vision, trouble>>

AgentKilled(r) ==
    /\ agent[r] \in Working /\ trouble < MaxTrouble /\ trouble' = trouble + 1
    /\ AgentEnds(r) /\ HangUp(r)
    /\ UNCHANGED <<run, lane, vision>>

-----------------------------------------------------------------------------
(* The vision API: one inference at a time, in a process of its own, under *)
(* the lock but without the preflight.                                     *)

VisionAsk ==
    /\ lock = Null /\ lock' = Server /\ vision' = [vision EXCEPT !.own = "booting"]
    /\ UNCHANGED <<run, lane, wire, agent, child, trouble>>

VisionLoads(which) ==
    /\ vision[which] = "booting" /\ vision' = [vision EXCEPT ![which] = "loaded"]
    /\ UNCHANGED <<run, lane, wire, agent, child, lock, trouble>>

VisionAnswers ==
    /\ vision.own # "none" /\ lock' = Null /\ vision' = [vision EXCEPT !.own = "none"]
    /\ UNCHANGED <<run, lane, wire, agent, child, trouble>>

\* The server ends with its SSH connection, or is cleaned up; its inference goes on.
VisionServerEnds ==
    /\ vision.own # "none" /\ vision.orphan = "none"
    /\ trouble < MaxTrouble /\ trouble' = trouble + 1
    /\ lock' = Null /\ vision' = [own |-> "none", orphan |-> vision.own]
    /\ UNCHANGED <<run, lane, wire, agent, child>>

VisionOrphanEnds ==
    /\ vision.orphan # "none" /\ vision' = [vision EXCEPT !.orphan = "none"]
    /\ UNCHANGED <<run, lane, wire, agent, child, lock, trouble>>

-----------------------------------------------------------------------------
Next ==
    \/ \E r \in Runs :
        \/ LeaseNext(r) \/ Cancel(r) \/ Expire(r)
        \/ Poll(r) \/ GiveUp(r) \/ Receive(r) \/ Record(r)
        \/ LinkLost(r) \/ Accept(r) \/ TakeLock(r) \/ Preflight(r) \/ Refuse(r) \/ Start(r)
        \/ ChildGuards(r) \/ ChildLoads(r) \/ ChildExits(r) \/ ChildReleases(r)
        \/ Watchdog(r) \/ AgentKilled(r)
    \/ DaemonDies
    \/ VisionAsk \/ VisionAnswers \/ VisionServerEnds \/ VisionOrphanEnds
    \/ \E which \in {"own", "orphan"} : VisionLoads(which)

Spec == Init /\ [][Next]_vars

(* "The advisory file lock coordinates Ninereeds processes" (gpu_lock.py,  *)
(* line 42): the GPU memory is never held by the work of two runs, not     *)
(* even by that of an ended run and of the run that retries it.            *)
OneGpuWorkload ==
    \A r, s \in Runs : child[r] \in Occupying /\ child[s] \in Occupying => r = s

(* With the vision API the lock does not keep the GPUs apart; see README.  *)
OneGpuUser ==
    /\ OneGpuWorkload
    /\ (vision.own = "loaded" \/ vision.orphan = "loaded") => \A r \in Runs : child[r] \notin Occupying
=============================================================================
