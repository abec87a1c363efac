----------------------- MODULE CheckpointFrontierProofs -----------------------
(***************************************************************************)
(* Retention never takes a checkpoint the branch still needs, for any      *)
(* number of sessions, any recipe and any interleaving of the coordinator, *)
(* a lane, the retention thread, the CLI and deaths of the daemon.         *)
(*                                                                         *)
(* The argument is about checkpoints that are Retirable: the next session  *)
(* has continued them, its evaluation is on record, nothing that waits or  *)
(* runs reads them, and the recipe does not preserve them.  No step makes  *)
(* such a checkpoint needed again (RetirableStays).  The retention thread  *)
(* plans only retirable checkpoints, although it reads protections, plan   *)
(* and intents in transactions of their own, and so a file that is gone    *)
(* was retirable and is.                                                   *)
(***************************************************************************)
EXTENDS CheckpointFrontier, WellFoundedInduction, TLAPS

-----------------------------------------------------------------------------
(* The invariant.                                                          *)

Trained(k)   == job[<<k, "train">>] = "succeeded"
Evaluated(k) == <<k, "evaluate">> \in linked

(* Where the retention thread is tells what it holds.                      *)
Planning   == {"authorize", "delete", "record", "fail"}
Deleting   == {"delete", "record", "fail"}
KeeperType ==
  [at : {"idle", "check", "derive", "release", "plan", "authorize", "delete", "record",
         "fail", "clear", "done"},
   why : {"prune", "scan", Null}, token : Stage \cup {Null},
   wanted : SUBSET Checkpoint, plan : PlanType \cup {Null}, left : SUBSET Checkpoint]

(* Counting a scan stays within the bound: it is counted when it checks.   *)
ScanCounted == keeper.at = "check" /\ keeper.why = "scan" => scans < MaxScans

Typed == TypeOK /\ keeper \in KeeperType /\ ScanCounted

(* A reconciliation that has found the boundary quiet: only at it does the *)
(* thread read what the ledger protects, or delete.  A scan finds it quiet *)
(* when it is started.                                                     *)
Quiet ==
  \/ keeper.at \in {"derive", "release", "plan", "authorize", "delete", "record", "fail", "clear"}
  \/ keeper.at = "check" /\ keeper.why # "prune"

(* A checkpoint is in the ledger from the success of its training on.      *)
RowsOK ==
  /\ row[0] # "none"
  /\ \A k \in Session : row[k] # "none" <=> Trained(k)

JobsOK ==
  /\ \A s \in linked : job[s] # "none"
  /\ creating # Null => job[creating] # "none"
  /\ lane # Null => job[lane] = "running"
  /\ \A k \in Session : job[<<k, "train">>] # "collapsed"

(* The sessions are created in order, and a checkpoint that the recipe     *)
(* preserves is protected before the next session continues it.            *)
InOrder ==
  \A k \in Session :
    /\ job[<<k, "train">>] # "none" =>
         \A j \in 1..(k - 1) : SessionDone(j) /\ (j \in recipe.preserved => j \in kept)
    /\ job[<<k, "evaluate">>] # "none" =>
         EvaluationRequired(k) /\ <<k, "train">> \in linked /\ Trained(k)

KeptOK == \A k \in kept : k \in recipe.preserved /\ Trained(k)

(* The evaluation a trained session must have is linked.                   *)
EvaluationLinked == \A k \in Session : Trained(k) /\ EvaluationRequired(k) => Evaluated(k)

(* Until it is, the prune request of the training stays in its slot.       *)
RequestOK ==
  \A k \in Session :
    Trained(k) /\ EvaluationRequired(k) /\ ~Evaluated(k) => request = <<k, "train">>

Retirable(c) ==
  /\ c + 1 \in Session /\ Trained(c + 1)
  /\ EvaluationRequired(c + 1) => Evaluated(c + 1)
  /\ \A s \in Stage \ retried : c \notin NeededBy(s)
  /\ c \notin recipe.preserved

(* What the thread holds in hand was in the ledger when it was planned,    *)
(* and is deleted under an intent.                                         *)
HandOK ==
  /\ keeper.at = "plan" => auto = keeper.wanted
  /\ keeper.at \in Planning =>
       keeper.plan \in PlanType /\ \A c \in keeper.plan.eligible : row[c] # "none"
  /\ keeper.at = "authorize" => keeper.plan.eligible # {}
  /\ keeper.at \in Deleting =>
       /\ keeper.left # {} /\ keeper.left \subseteq keeper.plan.eligible
       /\ \A c \in keeper.left : \E d \in deletion : d.plan = keeper.plan /\ d.item = c
  /\ keeper.at = "record" => Item \notin bytes
  /\ keeper.at # "idle" => activity

(* From the reading of the protections to the last deletion, what the      *)
(* thread would delete is retirable.                                       *)
Spares ==
  /\ keeper.at \in {"release", "plan"} =>
       \A c \in Checkpoint \ (keeper.wanted \cup kept) : row[c] = "available" => Retirable(c)
  /\ keeper.at = "authorize" => \A c \in keeper.plan.eligible : Retirable(c)
  /\ keeper.at \in Deleting => \A c \in keeper.left : Retirable(c)

(* What holds of a branch whose bookkeeping no step has overtaken.         *)
Followed ==
  /\ \A k \in Session : Trained(k) => <<k, "train">> \in linked
  /\ RequestOK
  /\ Quiet => ~LiveRun /\ EvaluationLinked
  /\ Spares
  /\ \A c \in Checkpoint : row[c] # "none" /\ c \notin bytes => Retirable(c)

FrontierInv ==
  /\ Typed
  /\ RowsOK /\ JobsOK /\ InOrder /\ KeptOK
  /\ HandOK /\ AuthorizedFirst
  /\ ~early => Followed
-----------------------------------------------------------------------------
(* The model's operators.                                                  *)

LEMMA StageKey ==
  /\ \A k \in Session : <<k, "train">> \in Stage /\ <<k, "evaluate">> \in Stage
  /\ \A s \in Stage : \E k \in Session : s = <<k, "train">> \/ s = <<k, "evaluate">>
BY DEF Stage

LEMMA Sessions == N \in Nat /\ 0 \in Checkpoint /\ Session \subseteq Checkpoint /\ Checkpoint \subseteq Nat
BY FrontierAssumption DEF Session, Checkpoint

(* A set of numbers that is not empty has a least one.                     *)
LEMMA LeastOf ==
  ASSUME NEW T, T \subseteq Nat, T # {}
  PROVE  \E c \in T : \A e \in T : c <= e
<1> DEFINE R == {ss \in Nat \X Nat : ss[1] < ss[2]}
<1>1. IsWellFoundedOn(R, Nat)
  BY NatLessThanWellFounded DEF OpToRel
<1> HIDE DEF R
<1>2. PICK c \in T : \A e \in T : <<e, c>> \notin R
  BY <1>1, WFMin
<1>3. ASSUME NEW e \in T PROVE c <= e
  <2>1. <<e, c>> \in Nat \X Nat /\ <<e, c>> \notin R /\ c \in Int /\ e \in Int
    BY <1>2
  <2> QED
    BY <2>1 DEF R
<1> QED
  BY <1>3

(* The walk stops at the first session that is not done.                   *)
LEMMA FrontierIs ==
  /\ Frontier \in 1..(N + 1)
  /\ Frontier = N + 1 \/ ~SessionDone(Frontier)
  /\ \A j \in 1..(Frontier - 1) : SessionDone(j)
<1> DEFINE Stops(k) == k = N + 1 \/ ~SessionDone(k)
           T == {k \in 1..(N + 1) : Stops(k)}
<1>1. N + 1 \in T /\ T \subseteq Nat
  BY Sessions
<1>2. PICK k \in T : \A e \in T : k <= e
  <2> HIDE DEF T
  <2> QED
    BY <1>1, LeastOf
<1>3. /\ k \in 1..(N + 1) /\ Stops(k)
      /\ \A j \in 1..(k - 1) : SessionDone(j)
  BY <1>2, Sessions
<1>4. \E c \in 1..(N + 1) : Stops(c) /\ \A j \in 1..(c - 1) : SessionDone(j)
  BY <1>3
<1> HIDE DEF T
<1> QED
  BY <1>4 DEF Frontier

(* The stage that is due: the training of the first session that is not    *)
(* done, or the evaluation it must have.                                   *)
LEMMA DueIs ==
  ASSUME Due
  PROVE  \E k \in Session :
           /\ k = Frontier /\ ~SessionDone(k) /\ \A j \in 1..(k - 1) : SessionDone(j)
           /\ \/ NextStage = <<k, "train">>
              \/ /\ NextStage = <<k, "evaluate">> /\ EvaluationRequired(k)
                 /\ <<k, "train">> \in linked /\ Trained(k)
<1> DEFINE k == Frontier
<1>1. k \in 1..(N + 1) /\ (k = N + 1 \/ ~SessionDone(k)) /\ \A j \in 1..(k - 1) : SessionDone(j)
  BY FrontierIs
<1>2. k # N + 1
  BY DEF Due, NextStage
<1>3. k \in Session /\ ~SessionDone(k)
  BY <1>1, <1>2, Sessions DEF Session
<1>4. CASE <<k, "train">> \notin linked
  BY <1>1, <1>2, <1>3, <1>4 DEF NextStage
<1>5. CASE <<k, "train">> \in linked
  <2>1. NextStage = <<k, "evaluate">>
    BY <1>2, <1>5 DEF NextStage
  <2>2. Linked(<<k, "train">>) = "succeeded"
    BY <2>1 DEF Due
  <2>3. Trained(k) /\ EvaluationRequired(k)
    BY <2>2, <1>3, <1>5 DEF Trained, SessionDone, Linked
  <2> QED
    BY <2>1, <2>3, <1>1, <1>3, <1>5
<1> QED
  BY <1>4, <1>5

LEMMA ItemIs ==
  ASSUME keeper.left \subseteq Checkpoint, keeper.left # {}
  PROVE  Item \in keeper.left
BY LeastOf, Sessions DEF Item

LEMMA IntentIs ==
  ASSUME keeper.left \subseteq Checkpoint, keeper.left # {},
         \A c \in keeper.left : \E d \in deletion : d.plan = keeper.plan /\ d.item = c
  PROVE  Intent \in deletion /\ Intent.plan = keeper.plan /\ Intent.item = Item
<1>1. \E d \in deletion : d.plan = keeper.plan /\ d.item = Item
  BY ItemIs
<1> QED
  BY <1>1 DEF Intent

-----------------------------------------------------------------------------
(* Types.                                                                  *)

(* What the retention thread changes: rows only to delete them, bytes only *)
(* to remove them.                                                         *)
KeeperMoves == KeeperPolls \/ KeeperStep
LEMMA KeeperFrame ==
  KeeperMoves => UNCHANGED <<runs, kept>>
BY DEF KeeperMoves, KeeperPolls, KeeperStep, KeeperChecks, KeeperDerives, KeeperReleases, KeeperPlans,
   KeeperAuthorizes, KeeperDeletes, KeeperRecords, KeeperFails, KeeperClears, KeeperRests, KeeperOnly,
   guards, files

LEMMA WantedIs == WantedProtected \in SUBSET Checkpoint
BY DEF WantedProtected

LEMMA InventoryIs == Typed => Inventory \in PlanType
BY DEF Typed, TypeOK, Inventory, PlanType, Checkpoint, Session

LEMMA CoordinatorTyped == Typed /\ CoordinatorStep => Typed'
<1> SUFFICES ASSUME Typed, CoordinatorStep PROVE Typed'
  OBVIOUS
<1> USE DEF Typed, TypeOK, ScanCounted, guards, files, retention, branch, lanes
<1>1. CASE Terminate \/ Block
  BY <1>1 DEF Terminate, Block, Ends
<1>2. CASE CreateStage
  <2>1. NextStage \in Stage
    BY <1>2, DueIs, StageKey DEF CreateStage
  <2>2. kept' \subseteq Session
    BY <1>2 DEF CreateStage, PreserveWalked, Walked, Session
  <2>3. job' \in [Stage -> JobStatus]
    BY <1>2, <2>1 DEF CreateStage, JobStatus
  <2> QED
    BY <1>2, <2>1, <2>2, <2>3 DEF CreateStage
<1>3. CASE LinkStage
  BY <1>3 DEF LinkStage
<1>4. CASE FinishWorkflow
  <2>1. kept' \subseteq Session
    BY <1>4 DEF FinishWorkflow, PreserveWalked, Walked, Session
  <2> QED
    BY <1>4, <2>1 DEF FinishWorkflow, Ends
<1> QED
  BY <1>1, <1>2, <1>3, <1>4 DEF CoordinatorStep

LEMMA LaneTyped ==
  Typed /\ (LaneStep \/ LeaseExpires \/ SwitchPipeline \/ DispatchOnce \/ RetryStage \/ DaemonDies) => Typed'
<1> SUFFICES ASSUME Typed,
                    LaneStep \/ LeaseExpires \/ SwitchPipeline \/ DispatchOnce \/ RetryStage \/ DaemonDies
             PROVE  Typed'
  OBVIOUS
<1> USE DEF Typed, TypeOK, ScanCounted, guards, files, retention, branch, lanes
<1>1. CASE PassGate \/ NothingToLease \/ SwitchPipeline
  BY <1>1 DEF PassGate, NothingToLease, SwitchPipeline
<1>2. CASE Lease
  BY <1>2 DEF Lease, Takes, JobStatus
<1>3. CASE DispatchOnce
  BY <1>3, FrontierAssumption DEF DispatchOnce, Takes, JobStatus
<1>4. CASE RunSucceeds
  <2>1. lane[1] \in Checkpoint
    BY <1>4, StageKey, Sessions DEF RunSucceeds
  <2>2. job' \in [Stage -> JobStatus]
    BY <1>4 DEF RunSucceeds, JobStatus
  <2>3. row' \in [Checkpoint -> {"none", "available", "deleted"}] /\ bytes' \subseteq Checkpoint
    BY <1>4, <2>1 DEF RunSucceeds
  <2> QED
    BY <1>4, <2>2, <2>3 DEF RunSucceeds
<1>5. CASE RunFails \/ LeaseExpires
  BY <1>5 DEF RunFails, LeaseExpires, JobStatus
<1>6. CASE RetryStage
  BY <1>6, FrontierAssumption DEF RetryStage, JobStatus
<1>7. CASE DaemonDies
  BY <1>7 DEF DaemonDies, KeeperType, Resting
<1> QED
  BY <1>1, <1>2, <1>3, <1>4, <1>5, <1>6, <1>7 DEF LaneStep

(* A move of the thread to a step of it changes nothing else of what it    *)
(* holds; a scan is only started, not resumed.                             *)
LEMMA KeeperRecord ==
  ASSUME keeper \in KeeperType
  PROVE  /\ \A step \in {"release", "plan", "authorize", "delete", "record", "fail", "clear", "done"} :
              /\ [keeper EXCEPT !.at = step] \in KeeperType
              /\ [keeper EXCEPT !.at = step].at = step
         /\ Resting \in KeeperType /\ Resting.at = "idle"
BY DEF KeeperType, Resting

LEMMA KeeperTyped == Typed /\ HandOK /\ KeeperMoves => Typed'
<1> SUFFICES ASSUME Typed, HandOK, KeeperMoves PROVE Typed'
  OBVIOUS
<1>0. TypeOK /\ keeper \in KeeperType /\ ScanCounted
  BY DEF Typed
<1>r. UNCHANGED <<runs, kept>>
  BY KeeperFrame
(* It is enough that what the thread writes has its type.                  *)
<1> DEFINE Entry == [plan : PlanType, item : Checkpoint, state : {"authorized", "deleted", "failed"}]
<1>s. SUFFICES /\ row' \in [Checkpoint -> {"none", "available", "deleted"}]
               /\ bytes' \subseteq Checkpoint /\ auto' \subseteq Checkpoint
               /\ deletion' \subseteq Entry
               /\ request' \in Stage \cup {Null}
               /\ activity' \in BOOLEAN
               /\ keeper' \in KeeperType /\ scans' \in 0..MaxScans /\ ScanCounted'
  <2> SUFFICES TypeOK'
    BY <1>s DEF Typed
  <2>1. keeper'.at \in {"idle", "check", "derive", "release", "plan", "authorize", "delete",
                        "record", "fail", "clear", "done"}
    BY <1>s DEF KeeperType
  <2> QED
    BY <1>0, <1>r, <1>s, <2>1 DEF TypeOK, runs, branch, lanes
<1>u. /\ row \in [Checkpoint -> {"none", "available", "deleted"}]
      /\ bytes \subseteq Checkpoint /\ auto \subseteq Checkpoint /\ kept \subseteq Checkpoint
      /\ deletion \subseteq Entry
      /\ request \in Stage \cup {Null}
      /\ activity \in BOOLEAN
      /\ scans \in 0..MaxScans
  BY <1>0, Sessions DEF TypeOK
<1> HIDE DEF Entry
<1> USE DEF KeeperOnly, guards, files
<1>1. CASE KeeperPolls
  BY <1>0, <1>1, <1>u DEF KeeperPolls, Resting, KeeperType, ScanCounted
<1>2. CASE KeeperChecks
  <2>1. /\ keeper' \in KeeperType /\ keeper'.at # "check"
        /\ \/ scans' = scans
           \/ keeper.why = "scan" /\ scans' = scans + 1
    <3> DEFINE asker == IF keeper.why = "prune" THEN request ELSE Null
    <3>1. /\ asker \in Stage \cup {Null}
          /\ \E step \in {"derive", "done"} :
               keeper' = [[keeper EXCEPT !.token = asker] EXCEPT !.at = step]
      BY <1>2, <1>u DEF KeeperChecks
    <3> HIDE DEF asker
    <3>2. keeper' \in KeeperType /\ keeper'.at # "check"
      BY <1>0, <3>1 DEF KeeperType
    <3> QED
      BY <1>2, <3>2 DEF KeeperChecks
  <2>2. scans' \in 0..MaxScans
    BY <1>0, <1>2, <1>u, <2>1, FrontierAssumption DEF ScanCounted, KeeperChecks
  <2> QED
    BY <1>2, <1>u, <2>1, <2>2 DEF KeeperChecks, ScanCounted
<1>3. CASE KeeperDerives
  <2>1. /\ auto' \subseteq Checkpoint
        /\ \/ keeper' = [keeper EXCEPT !.at = "done"]
           \/ keeper' = [keeper EXCEPT !.at = "release", !.wanted = WantedProtected]
    BY <1>3, <1>u, WantedIs DEF KeeperDerives, MovesTo
  <2>2. keeper' \in KeeperType /\ keeper'.at # "check"
    BY <1>0, <2>1, WantedIs DEF KeeperType
  <2> QED
    BY <1>3, <1>u, <2>1, <2>2 DEF KeeperDerives, ScanCounted
<1>4. CASE KeeperReleases
  <2>1. auto' \subseteq Checkpoint
    BY <1>0, <1>4 DEF KeeperReleases, KeeperType
  <2> QED
    BY <1>0, <1>4, <1>u, <2>1, KeeperRecord DEF KeeperReleases, MovesTo, ScanCounted
<1>5. CASE KeeperPlans
  <2>1. Inventory \in PlanType
    BY InventoryIs
  <2>2. \E step \in {"authorize", "clear", "done"} :
          keeper' = [keeper EXCEPT !.plan = Inventory, !.at = step]
    BY <1>5 DEF KeeperPlans, AfterPlan
  <2>3. keeper' \in KeeperType /\ keeper'.at # "check"
    BY <1>0, <2>1, <2>2 DEF KeeperType
  <2> QED
    BY <1>5, <1>u, <2>3 DEF KeeperPlans, ScanCounted
<1>6. CASE KeeperAuthorizes
  <2>1. CASE LiveRun \/ Inventory # keeper.plan
    BY <1>0, <1>6, <1>u, <2>1, KeeperRecord DEF KeeperAuthorizes, MovesTo, ScanCounted
  <2>2. CASE Inventory = keeper.plan /\ ~LiveRun
    <3>1. keeper.plan \in PlanType /\ keeper.plan.eligible \subseteq Checkpoint
      BY <2>2, InventoryIs DEF PlanType
    <3>2. keeper' \in KeeperType /\ keeper'.at # "check"
      BY <1>0, <1>6, <2>2, <3>1 DEF KeeperAuthorizes, KeeperType
    <3>3. deletion' \subseteq Entry
      BY <1>6, <1>u, <2>2, <3>1 DEF KeeperAuthorizes, Entry
    <3> QED
      BY <1>6, <1>u, <3>2, <3>3 DEF KeeperAuthorizes, ScanCounted
  <2> QED
    BY <2>1, <2>2
<1>7. CASE KeeperDeletes
  BY <1>0, <1>7, <1>u, KeeperRecord DEF KeeperDeletes, MovesTo, ScanCounted
<1>8. CASE KeeperRests
  BY <1>0, <1>8, <1>u, KeeperRecord DEF KeeperRests, ScanCounted
<1>9. CASE KeeperClears
  BY <1>0, <1>9, <1>u, KeeperRecord DEF KeeperClears, MovesTo, ScanCounted
<1>10. CASE keeper.at \in Deleting /\ (KeeperRecords \/ KeeperFails)
  <2>1. keeper.left \subseteq Checkpoint
    BY <1>0 DEF KeeperType
  <2>2. Item \in Checkpoint /\ Intent \in deletion
    BY <1>10, <2>1, ItemIs, IntentIs DEF HandOK
  <2>3. deletion' \subseteq Entry
    BY <1>10, <1>u, <2>2 DEF KeeperRecords, KeeperFails, Entry
  <2>4. row' \in [Checkpoint -> {"none", "available", "deleted"}]
    BY <1>10, <1>u, <2>2 DEF KeeperRecords, KeeperFails
  <2>5. \E step \in {"delete", "clear", "done", "fail"} :
          \/ keeper' = [keeper EXCEPT !.left = @ \ {Item}, !.at = step]
          \/ keeper' = [keeper EXCEPT !.at = step]
    BY <1>10 DEF KeeperRecords, KeeperFails, MovesTo, AfterPlan
  <2>6. keeper' \in KeeperType /\ keeper'.at # "check"
    BY <1>0, <2>5 DEF KeeperType
  <2> QED
    BY <1>10, <1>u, <2>3, <2>4, <2>6 DEF KeeperRecords, KeeperFails, ScanCounted
<1> QED
  BY <1>1, <1>2, <1>3, <1>4, <1>5, <1>6, <1>7, <1>8, <1>9, <1>10
  DEF KeeperMoves, KeeperStep, KeeperRecords, KeeperFails, Deleting

LEMMA NextTyped == Typed /\ HandOK /\ [Next]_vars => Typed'
<1>1. Typed /\ UNCHANGED vars => Typed'
  BY DEF Typed, TypeOK, ScanCounted, vars, runs, branch, lanes, files, guards, retention
<1> QED
  BY <1>1, CoordinatorTyped, LaneTyped, KeeperTyped DEF Next, KeeperMoves

-----------------------------------------------------------------------------
(* What no step does to the jobs: an ended stage keeps its result, a stage *)
(* waits again only when it was requeued by hand, and is created only by   *)
(* the coordinator.                                                        *)

Live(s) == job[s] \in {"queued", "running"}
Creates(s) == CreateStage /\ s = NextStage /\ job[s] = "none"

JobsProgress ==
  /\ recipe' = recipe /\ linked \subseteq linked' /\ kept \subseteq kept' /\ retried \subseteq retried'
  /\ early => early'
  /\ \A s \in Stage :
       /\ job[s] \in {"succeeded", "collapsed"} => job'[s] = job[s]
       /\ job'[s] = "none" <=> job[s] = "none" /\ ~Creates(s)
       /\ Live(s)' => Live(s) \/ s \in retried' \/ Creates(s)
       /\ Ended(s)' => Ended(s) \/ (RunSucceeds /\ lane = s)

LEMMA JobsOnlyProgress == Typed /\ JobsOK /\ [Next]_vars => JobsProgress
<1> SUFFICES ASSUME Typed, JobsOK, [Next]_vars PROVE JobsProgress
  OBVIOUS
<1>0. job \in [Stage -> JobStatus] /\ linked \subseteq Stage /\ creating \in Stage \cup {Null} /\ Null \notin Stage
  BY FrontierAssumption DEF Typed, TypeOK
<1> USE DEF JobsProgress, Live, Ended, branch, lanes, files, guards, retention
<1>1. CASE CreateStage
  <2>1. NextStage \in Stage
    BY <1>1, DueIs, StageKey DEF CreateStage
  <2>2. UNCHANGED <<recipe, retried, linked, early>> /\ kept \subseteq kept'
    BY <1>1 DEF CreateStage, PreserveWalked
  <2>3. job' = [job EXCEPT ![NextStage] = IF @ = "none" THEN "queued" ELSE @]
    BY <1>1 DEF CreateStage
  <2>4. ~RunSucceeds
    BY <1>1, <1>0, <2>1 DEF RunSucceeds, CreateStage
  <2>5. ASSUME NEW s \in Stage PROVE job'[s] = IF Creates(s) THEN "queued" ELSE job[s]
    BY <1>0, <1>1, <2>1, <2>3 DEF Creates
  <2>6. \A s \in Stage : Creates(s) => job[s] = "none"
    BY DEF Creates
  <2> QED
    BY <2>2, <2>5, <2>6
(* No other step creates a job.                                            *)
<1>c. CASE ~CreateStage
  <2>1. \A s \in Stage : ~Creates(s)
    BY <1>c DEF Creates
  <2>2. CASE /\ UNCHANGED <<job, recipe, retried, early>>
             /\ linked \subseteq linked' /\ kept \subseteq kept'
    BY <2>1, <2>2
  <2>3. CASE Takes /\ UNCHANGED <<recipe, retried>>
    BY <1>0, <2>1, <2>3 DEF Takes
  <2>4. CASE RunSucceeds
    <3>1. job[lane] = "running" /\ lane \in Stage
      BY <1>0, <2>4 DEF JobsOK, RunSucceeds
    <3> QED
      BY <1>0, <2>1, <2>4, <3>1 DEF RunSucceeds
  <2>5. CASE RunFails
    <3>1. job[lane] = "running" /\ lane \in Stage
      BY <1>0, <2>5 DEF JobsOK, RunFails
    <3> QED
      BY <1>0, <2>1, <2>5, <3>1 DEF RunFails
  <2>6. CASE LeaseExpires
    BY <1>0, <2>1, <2>6 DEF LeaseExpires
  <2>7. CASE RetryStage
    BY <1>0, <2>1, <2>7 DEF RetryStage
  <2>8. CASE Lease \/ DispatchOnce
    BY <2>3, <2>8 DEF Lease, DispatchOnce
  <2>9. CASE Terminate \/ Block \/ LinkStage \/ FinishWorkflow
    <3>1. UNCHANGED <<job, recipe, retried, early>> /\ linked \subseteq linked' /\ kept \subseteq kept'
      BY <2>9 DEF Terminate, Block, LinkStage, FinishWorkflow, Ends, PreserveWalked
    <3> QED
      BY <3>1, <2>2
  <2>10. CASE PassGate \/ NothingToLease \/ SwitchPipeline \/ DaemonDies
    BY <2>10, <2>2 DEF PassGate, NothingToLease, SwitchPipeline, DaemonDies
  <2>11. CASE KeeperPolls \/ KeeperStep
    BY <2>11, <2>2, KeeperFrame DEF KeeperMoves, runs
  <2>12. CASE UNCHANGED vars
    BY <2>12, <2>2 DEF vars, runs
  <2> QED
    BY <1>c, <2>4, <2>5, <2>6, <2>7, <2>8, <2>9, <2>10, <2>11, <2>12 DEF Next, CoordinatorStep, LaneStep
<1> QED
  BY <1>1, <1>c

LEMMA DonePersists ==
  ASSUME JobsProgress, NEW k \in Session
  PROVE  /\ Trained(k) => Trained(k)'
         /\ SessionDone(k) => SessionDone(k)'
         /\ EvaluationRequired(k)' = EvaluationRequired(k)
         /\ Evaluated(k) => Evaluated(k)'
BY StageKey DEF JobsProgress, SessionDone, EvaluationRequired, Linked, Trained, Evaluated

-----------------------------------------------------------------------------
(* The ledger's account of the sessions.                                   *)

(* A file appears with the success of its training; its row is deleted     *)
(* after it.                                                               *)
LEMMA FilesMove ==
  [Next]_vars =>
    \/ UNCHANGED files
    \/ /\ RunSucceeds /\ lane[2] = "train"
       /\ row' = [row EXCEPT ![lane[1]] = "available"] /\ bytes' = bytes \cup {lane[1]}
    \/ /\ KeeperDeletes /\ row' = row /\ bytes' = bytes \ {Item}
    \/ /\ KeeperRecords /\ bytes' = bytes
       /\ row' = [row EXCEPT ![Item] = "deleted"] /\ row[Item] = "available"
<1> SUFFICES ASSUME [Next]_vars, row' # row \/ bytes' # bytes
             PROVE  \/ /\ RunSucceeds /\ lane[2] = "train"
                       /\ row' = [row EXCEPT ![lane[1]] = "available"] /\ bytes' = bytes \cup {lane[1]}
                    \/ /\ KeeperDeletes /\ row' = row /\ bytes' = bytes \ {Item}
                    \/ /\ KeeperRecords /\ bytes' = bytes
                       /\ row' = [row EXCEPT ![Item] = "deleted"] /\ row[Item] = "available"
  BY DEF files
<1>1. CASE UNCHANGED files
  BY <1>1 DEF files
<1>2. CASE RunSucceeds
  BY <1>2 DEF RunSucceeds, files
<1>3. CASE KeeperDeletes
  BY <1>3 DEF KeeperDeletes
<1>4. CASE KeeperRecords
  BY <1>4 DEF KeeperRecords
<1>5. CASE Terminate \/ Block \/ CreateStage \/ LinkStage \/ FinishWorkflow
  BY <1>1, <1>5 DEF Terminate, Block, CreateStage, LinkStage, FinishWorkflow, Ends
<1>6. CASE PassGate \/ Lease \/ NothingToLease \/ RunFails \/ LeaseExpires \/ SwitchPipeline \/ DispatchOnce
             \/ RetryStage \/ DaemonDies
  BY <1>1, <1>6 DEF PassGate, Lease, NothingToLease, RunFails, LeaseExpires, SwitchPipeline, DispatchOnce,
     RetryStage, DaemonDies, Takes
<1>7. CASE KeeperPolls \/ KeeperChecks \/ KeeperDerives \/ KeeperReleases \/ KeeperPlans \/ KeeperAuthorizes
             \/ KeeperFails \/ KeeperClears \/ KeeperRests
  BY <1>1, <1>7 DEF KeeperPolls, KeeperChecks, KeeperDerives, KeeperReleases, KeeperPlans, KeeperAuthorizes,
     KeeperFails, KeeperClears, KeeperRests, KeeperOnly
<1>8. CASE UNCHANGED vars
  BY <1>1, <1>8 DEF vars
<1> QED
  BY <1>1, <1>2, <1>3, <1>4, <1>5, <1>6, <1>7, <1>8 DEF Next, CoordinatorStep, LaneStep, KeeperStep

SessionsOK == RowsOK /\ JobsOK /\ InOrder /\ KeptOK

LEMMA RowsStay == Typed /\ HandOK /\ RowsOK /\ JobsOK /\ [Next]_vars => RowsOK'
<1> SUFFICES ASSUME Typed, HandOK, RowsOK, JobsOK, [Next]_vars PROVE RowsOK'
  OBVIOUS
<1>1. JobsProgress
  BY JobsOnlyProgress
<1>2. row \in [Checkpoint -> {"none", "available", "deleted"}] /\ job \in [Stage -> JobStatus]
  BY DEF Typed, TypeOK
<1>3. CASE RunSucceeds /\ lane[2] = "train"
  <2>1. PICK k \in Session : lane = <<k, "train">>
    BY <1>3, StageKey DEF RunSucceeds
  <2>2. row' = [row EXCEPT ![k] = "available"] /\ job' = [job EXCEPT ![lane] = "succeeded"]
    BY <1>3, <2>1 DEF RunSucceeds
  <2> QED
    BY <1>2, <2>1, <2>2, Sessions, StageKey DEF RowsOK, Trained
<1>4. CASE ~(RunSucceeds /\ lane[2] = "train")
  <2>1. ASSUME NEW k \in Session PROVE Trained(k)' <=> Trained(k)
    <3>1. <<k, "train">> \in Stage /\ job[<<k, "train">>] # "collapsed"
      BY StageKey DEF JobsOK
    <3>2. lane = <<k, "train">> => lane[2] = "train"
      OBVIOUS
    <3> QED
      BY <1>1, <1>4, <3>1, <3>2 DEF JobsProgress, Ended, Trained
  <2>2. \A c \in Checkpoint : row'[c] # "none" <=> row[c] # "none"
    BY <1>2, <1>4, FilesMove DEF files
  <2> QED
    BY <2>1, <2>2, Sessions DEF RowsOK
<1> QED
  BY <1>3, <1>4

LEMMA JobsStay == Typed /\ JobsOK /\ [Next]_vars => JobsOK'
<1> SUFFICES ASSUME Typed, JobsOK, [Next]_vars PROVE JobsOK'
  OBVIOUS
<1>0. /\ job \in [Stage -> JobStatus] /\ linked \subseteq Stage /\ Null \notin Stage
      /\ creating \in Stage \cup {Null} /\ lane \in Stage \cup {Null}
  BY FrontierAssumption DEF Typed, TypeOK
<1>1. JobsProgress
  BY JobsOnlyProgress
<1>2. \A s \in Stage : job[s] # "none" => job'[s] # "none"
  BY <1>1 DEF JobsProgress
<1>3. \/ UNCHANGED <<linked, creating>>
      \/ linked' = linked /\ creating' = Null
      \/ linked' = linked \cup {creating} /\ creating # Null /\ creating' = Null
      \/ linked' = linked /\ creating' = NextStage /\ NextStage \in Stage /\ job'[NextStage] # "none"
  <2>1. CASE CreateStage
    <3>1. NextStage \in Stage
      BY <2>1, DueIs, StageKey DEF CreateStage
    <3> QED
      BY <2>1, <3>1, <1>0 DEF CreateStage
  <2>2. CASE Terminate \/ Block \/ LinkStage \/ FinishWorkflow
    BY <2>2 DEF Terminate, Block, LinkStage, FinishWorkflow, Ends
  <2>3. CASE LaneStep \/ LeaseExpires \/ SwitchPipeline \/ DispatchOnce \/ RetryStage
    BY <2>3 DEF LaneStep, PassGate, Lease, NothingToLease, RunSucceeds, RunFails, LeaseExpires, SwitchPipeline,
       DispatchOnce, RetryStage, Takes
  <2>4. CASE KeeperMoves \/ UNCHANGED vars
    BY <2>4, KeeperFrame DEF runs, vars
  <2>5. CASE DaemonDies
    BY <2>5 DEF DaemonDies
  <2> QED
    BY <2>1, <2>2, <2>3, <2>4, <2>5 DEF Next, CoordinatorStep, KeeperMoves
<1>4. (\A s \in linked' : job'[s] # "none") /\ (creating' # Null => job'[creating'] # "none")
  BY <1>0, <1>2, <1>3 DEF JobsOK
(* The executor of a stage keeps it running: nobody else ends its run.     *)
<1>5. lane' # Null => job'[lane'] = "running"
  <2>1. CASE Takes
    BY <2>1, <1>0 DEF Takes, JobStatus
  <2>2. CASE CreateStage
    <3>1. NextStage \in Stage /\ lane' = lane
      BY <2>2, DueIs, StageKey DEF CreateStage, lanes
    <3> QED
      BY <2>2, <3>1, <1>0 DEF CreateStage, JobsOK
  <2>3. CASE Terminate \/ Block \/ LinkStage \/ FinishWorkflow \/ SwitchPipeline
    BY <2>3 DEF Terminate, Block, LinkStage, FinishWorkflow, SwitchPipeline, Ends, lanes, JobsOK
  <2>4. CASE RunSucceeds \/ RunFails
    BY <2>4 DEF RunSucceeds, RunFails
  <2>5. CASE PassGate \/ NothingToLease
    BY <2>5 DEF PassGate, NothingToLease, JobsOK
  <2>6. CASE LeaseExpires
    BY <2>6, <1>0 DEF LeaseExpires, lanes, JobsOK
  <2>7. CASE RetryStage
    BY <2>7, <1>0 DEF RetryStage, lanes, JobsOK, LiveRun
  <2>8. CASE KeeperMoves \/ UNCHANGED vars
    BY <2>8, KeeperFrame DEF runs, lanes, vars, JobsOK
  <2>9. CASE DaemonDies
    BY <2>9 DEF DaemonDies, JobsOK
  <2> QED
    BY <2>1, <2>2, <2>3, <2>4, <2>5, <2>6, <2>7, <2>8, <2>9
    DEF Next, CoordinatorStep, LaneStep, KeeperMoves, Lease, DispatchOnce
<1>6. ASSUME NEW k \in Session PROVE job'[<<k, "train">>] # "collapsed"
  <2>1. <<k, "train">> \in Stage /\ job[<<k, "train">>] # "collapsed"
    BY StageKey DEF JobsOK
  <2>2. CASE RunSucceeds /\ lane = <<k, "train">>
    BY <2>2, <2>1, <1>0 DEF RunSucceeds
  <2>3. CASE ~(RunSucceeds /\ lane = <<k, "train">>)
    BY <2>1, <2>3, <1>1 DEF JobsProgress, Ended
  <2> QED
    BY <2>2, <2>3
<1> QED
  BY <1>4, <1>5, <1>6 DEF JobsOK

(* The sessions follow one another: when the next stage is created, the    *)
(* sessions before it are done, and those that are to be preserved are.    *)
LEMMA OrderStays == Typed /\ JobsOK /\ InOrder /\ [Next]_vars => InOrder'
<1> SUFFICES ASSUME Typed, JobsOK, InOrder, [Next]_vars, NEW k \in Session
             PROVE  /\ job'[<<k, "train">>] # "none" =>
                         \A j \in 1..(k - 1) : SessionDone(j)' /\ (j \in recipe'.preserved => j \in kept')
                    /\ job'[<<k, "evaluate">>] # "none" =>
                         EvaluationRequired(k)' /\ <<k, "train">> \in linked' /\ Trained(k)'
  BY DEF InOrder
<1>1. JobsProgress
  BY JobsOnlyProgress
<1>2. \A j \in 1..(k - 1) : j \in Session
  BY Sessions DEF Session
<1>3. ASSUME job'[<<k, "train">>] # "none", NEW j \in 1..(k - 1)
      PROVE  SessionDone(j)' /\ (j \in recipe'.preserved => j \in kept')
  <2>1. CASE job[<<k, "train">>] # "none"
    <3>1. SessionDone(j) /\ (j \in recipe.preserved => j \in kept)
      BY <2>1 DEF InOrder
    <3> QED
      BY <1>1, <1>2, <3>1, DonePersists DEF JobsProgress
  <2>2. CASE job[<<k, "train">>] = "none"
    <3>1. CreateStage /\ NextStage = <<k, "train">>
      BY <1>1, <1>3, <2>2, StageKey DEF JobsProgress, Creates
    <3>2. PICK f \in Session :
            /\ f = Frontier /\ \A i \in 1..(f - 1) : SessionDone(i)
            /\ NextStage = <<f, "train">> \/ NextStage = <<f, "evaluate">>
      BY <3>1, DueIs DEF CreateStage
    <3>3. f = k
      BY <3>1, <3>2
    <3>4. SessionDone(j)
      BY <3>2, <3>3
    <3>5. j \in Walked
      BY <3>2, <3>3, <3>4, <1>2, Sessions DEF Walked, SessionDone, Session
    <3>6. j \in recipe.preserved => j \in kept'
      BY <3>1, <3>5 DEF CreateStage, PreserveWalked
    <3> QED
      BY <1>1, <1>2, <3>4, <3>6, DonePersists DEF JobsProgress
  <2> QED
    BY <2>1, <2>2
<1>4. ASSUME job'[<<k, "evaluate">>] # "none"
      PROVE  EvaluationRequired(k)' /\ <<k, "train">> \in linked' /\ Trained(k)'
  <2>1. EvaluationRequired(k) /\ <<k, "train">> \in linked /\ Trained(k)
    <3>1. CASE job[<<k, "evaluate">>] # "none"
      BY <3>1 DEF InOrder
    <3>2. CASE job[<<k, "evaluate">>] = "none"
      <4>1. CreateStage /\ NextStage = <<k, "evaluate">>
        BY <1>1, <1>4, <3>2, StageKey DEF JobsProgress, Creates
      <4> QED
        BY <4>1, DueIs DEF CreateStage
    <3> QED
      BY <3>1, <3>2
  <2> QED
    BY <1>1, <2>1, DonePersists DEF JobsProgress
<1> QED
  BY <1>3, <1>4

LEMMA KeptStays == Typed /\ JobsOK /\ KeptOK /\ [Next]_vars => KeptOK'
<1> SUFFICES ASSUME Typed, JobsOK, KeptOK, [Next]_vars, NEW k \in kept'
             PROVE  k \in recipe'.preserved /\ Trained(k)'
  BY DEF KeptOK
<1>1. JobsProgress
  BY JobsOnlyProgress
<1>2. k \in recipe.preserved /\ Trained(k) /\ k \in Session
  <2>1. CASE k \in kept
    BY <2>1 DEF KeptOK, Typed, TypeOK
  <2>2. CASE k \notin kept
    <3>1. CreateStage \/ FinishWorkflow
      <4>1. CASE Terminate \/ Block \/ LinkStage
        BY <2>2, <4>1 DEF Terminate, Block, LinkStage, guards
      <4>2. CASE LaneStep \/ LeaseExpires \/ SwitchPipeline \/ DispatchOnce \/ RetryStage \/ DaemonDies
        BY <2>2, <4>2 DEF LaneStep, PassGate, Lease, NothingToLease, RunSucceeds, RunFails, LeaseExpires,
           SwitchPipeline, DispatchOnce, RetryStage, DaemonDies, Takes, guards
      <4>3. CASE KeeperMoves \/ UNCHANGED vars
        BY <2>2, <4>3, KeeperFrame DEF vars, guards
      <4> QED
        BY <4>1, <4>2, <4>3 DEF Next, CoordinatorStep, KeeperMoves
    <3>2. k \in Walked \cap recipe.preserved
      BY <2>2, <3>1 DEF CreateStage, FinishWorkflow, PreserveWalked
    <3> QED
      BY <3>2 DEF Walked, Linked, Trained, Session
  <2> QED
    BY <2>1, <2>2
<1> QED
  BY <1>1, <1>2, DonePersists DEF JobsProgress

LEMMA SessionsStay == Typed /\ HandOK /\ SessionsOK /\ [Next]_vars => SessionsOK'
BY RowsStay, JobsStay, OrderStays, KeptStays DEF SessionsOK

-----------------------------------------------------------------------------
(* What the retention thread has in hand.                                  *)

LEMMA ItemStays == keeper'.left = keeper.left => Item' = Item
BY DEF Item

LEMMA IntentStays ==
  keeper'.left = keeper.left /\ keeper'.plan = keeper.plan /\ deletion' = deletion => Intent' = Intent
BY ItemStays DEF Intent

(* The other threads leave it alone, or take it all away.                  *)
LEMMA OthersFrame ==
  [Next]_vars => KeeperMoves \/ DaemonDies \/ UNCHANGED <<keeper, auto, deletion, activity, scans>>
<1> SUFFICES ASSUME [Next]_vars
             PROVE  KeeperMoves \/ DaemonDies \/ UNCHANGED <<keeper, auto, deletion, activity, scans>>
  OBVIOUS
<1> USE DEF guards, retention
<1>1. CASE CoordinatorStep
  BY <1>1 DEF CoordinatorStep, Terminate, Block, CreateStage, LinkStage, FinishWorkflow, Ends
<1>2. CASE LaneStep \/ LeaseExpires \/ SwitchPipeline \/ DispatchOnce \/ RetryStage
  BY <1>2 DEF LaneStep, PassGate, Lease, NothingToLease, RunSucceeds, RunFails, LeaseExpires, SwitchPipeline,
     DispatchOnce, RetryStage, Takes
<1>3. CASE UNCHANGED vars
  BY <1>3 DEF vars
<1> QED
  BY <1>1, <1>2, <1>3 DEF Next, KeeperMoves

(* A file that is written was never planned: its training ran.             *)
LEMMA WrittenAnew ==
  ASSUME Typed, RowsOK, JobsOK, RunSucceeds, lane[2] = "train"
  PROVE  lane[1] \in Session /\ lane = <<lane[1], "train">> /\ row[lane[1]] = "none"
<1>1. PICK k \in Session : lane = <<k, "train">>
  BY StageKey DEF RunSucceeds
<1>2. job[lane] = "running"
  BY FrontierAssumption DEF RunSucceeds, JobsOK
<1>3. row[k] = "none"
  BY <1>1, <1>2 DEF RowsOK, Trained
<1> QED
  BY <1>1, <1>3

LEMMA RowsGrow ==
  ASSUME Typed, HandOK, RowsOK, JobsOK, [Next]_vars, NEW c \in Checkpoint, row[c] # "none"
  PROVE  row'[c] # "none"
<1>1. row \in [Checkpoint -> {"none", "available", "deleted"}]
  BY DEF Typed, TypeOK
<1> QED
  BY <1>1, FilesMove DEF files

(* An intent is closed, and never taken back.                              *)
LEMMA IntentsStay ==
  ASSUME Typed, HandOK, [Next]_vars
  PROVE  \A d \in deletion : \E e \in deletion' : e.plan = d.plan /\ e.item = d.item
<1>1. CASE deletion \subseteq deletion'
  BY <1>1
<1>2. CASE keeper.at \in Deleting /\ (KeeperRecords \/ KeeperFails)
  <2>1. keeper.left \subseteq Checkpoint
    BY DEF Typed, KeeperType
  <2>2. Intent \in deletion
    BY <1>2, <2>1, IntentIs DEF HandOK
  <2>3. Intent \in [plan : PlanType, item : Checkpoint, state : {"authorized", "deleted", "failed"}]
    BY <2>2 DEF Typed, TypeOK
  <2>4. \A x \in {"deleted", "failed"} : [Intent EXCEPT !.state = x].plan = Intent.plan
                                         /\ [Intent EXCEPT !.state = x].item = Intent.item
    BY <2>3
  <2> HIDE DEF Intent
  <2>5. \/ deletion' = deletion
        \/ \E e \in deletion' : /\ deletion' = (deletion \ {Intent}) \cup {e}
                                /\ e.plan = Intent.plan /\ e.item = Intent.item
    BY <1>2, <2>4 DEF KeeperRecords, KeeperFails
  <2> QED
    BY <2>5
<1>3. CASE KeeperPolls \/ KeeperChecks \/ KeeperDerives \/ KeeperReleases \/ KeeperPlans \/ KeeperAuthorizes
             \/ KeeperDeletes \/ KeeperClears \/ KeeperRests \/ DaemonDies
  BY <1>1, <1>3 DEF KeeperPolls, KeeperChecks, KeeperDerives, KeeperReleases, KeeperPlans, KeeperAuthorizes,
     KeeperDeletes, KeeperClears, KeeperRests, DaemonDies
<1> QED
  BY <1>1, <1>2, <1>3, OthersFrame DEF KeeperMoves, KeeperStep, KeeperRecords, KeeperFails, Deleting

LEMMA HandStays == Typed /\ HandOK /\ RowsOK /\ JobsOK /\ [Next]_vars => HandOK'
<1> SUFFICES ASSUME Typed, HandOK, RowsOK, JobsOK, [Next]_vars PROVE HandOK'
  OBVIOUS
<1>0. keeper \in KeeperType /\ row \in [Checkpoint -> {"none", "available", "deleted"}]
  BY DEF Typed, TypeOK
<1>e. keeper.plan \in PlanType => keeper.plan.eligible \subseteq Checkpoint
  BY DEF PlanType
<1>l. keeper.left \subseteq Checkpoint
  BY <1>0 DEF KeeperType
<1>g. \A c \in Checkpoint : row[c] # "none" => row'[c] # "none"
  BY RowsGrow
<1>1. CASE UNCHANGED <<keeper, auto, deletion, activity, scans>>
  <2>1. Item' = Item
    BY <1>1, ItemStays
  <2>2. keeper.at = "record" => Item \notin bytes'
    <3> SUFFICES ASSUME keeper.at = "record" PROVE Item \notin bytes'
      OBVIOUS
    <3>1. Item \in Checkpoint /\ row[Item] # "none" /\ Item \notin bytes
      BY <1>l, <1>e, ItemIs DEF HandOK, Planning, Deleting
    <3>2. CASE RunSucceeds /\ lane[2] = "train"
      BY <3>1, <3>2, WrittenAnew, FilesMove DEF RunSucceeds
    <3> QED
      BY <3>1, <3>2, FilesMove DEF files
  <2>3. keeper.at \in Planning => \A c \in keeper.plan.eligible : row'[c] # "none"
    BY <1>e, <1>g DEF HandOK
  <2> QED
    BY <1>1, <2>1, <2>2, <2>3 DEF HandOK
<1>2. CASE DaemonDies
  BY <1>2 DEF DaemonDies, Resting, HandOK, Planning, Deleting
(* The moves of the thread.                                                *)
<1>3. CASE KeeperPolls
  BY <1>3 DEF KeeperPolls, Resting, HandOK, Planning, Deleting
<1>4. CASE KeeperChecks
  <2>1. keeper'.at \in {"derive", "done"}
    BY <1>0, <1>4 DEF KeeperChecks, KeeperType
  <2> QED
    BY <1>4, <2>1 DEF KeeperChecks, HandOK, Planning, Deleting
<1>5. CASE KeeperDerives
  <2>1. keeper'.at \in {"release", "done"}
    BY <1>0, <1>5 DEF KeeperDerives, KeeperType, MovesTo
  <2> QED
    BY <1>5, <2>1 DEF KeeperDerives, HandOK, Planning, Deleting
<1>6. CASE KeeperReleases
  BY <1>0, <1>6 DEF KeeperReleases, KeeperType, MovesTo, HandOK, Planning, Deleting
<1>7. CASE KeeperPlans
  <2>1. PICK step \in {"authorize", "clear", "done"} :
          /\ keeper' = [keeper EXCEPT !.plan = Inventory, !.at = step]
          /\ step = "authorize" => Inventory.eligible # {}
    BY <1>7 DEF KeeperPlans, AfterPlan
  <2>2. keeper'.at = step /\ keeper'.plan = Inventory
    BY <1>0, <2>1 DEF KeeperType
  <2>3. Inventory \in PlanType /\ \A c \in Inventory.eligible : row[c] # "none"
    BY InventoryIs DEF Inventory
  <2>4. UNCHANGED <<row, activity>>
    BY <1>7 DEF KeeperPlans, KeeperOnly, files
  <2> HIDE DEF Inventory
  <2> QED
    BY <1>7, <2>1, <2>2, <2>3, <2>4 DEF HandOK, Planning, Deleting, KeeperPlans
<1>8. CASE KeeperAuthorizes
  <2>1. CASE LiveRun \/ Inventory # keeper.plan
    BY <1>0, <1>8, <2>1 DEF KeeperAuthorizes, KeeperType, MovesTo, HandOK, Planning, Deleting
  <2>2. CASE ~LiveRun /\ Inventory = keeper.plan
    <3>1. /\ keeper'.at = "delete" /\ keeper'.left = keeper.plan.eligible /\ keeper'.plan = keeper.plan
          /\ UNCHANGED <<row, activity>>
      BY <1>0, <1>8, <2>2 DEF KeeperAuthorizes, KeeperType, KeeperOnly, files
    <3>2. \A c \in keeper.plan.eligible : \E d \in deletion' : d.plan = keeper.plan /\ d.item = c
      <4> SUFFICES ASSUME NEW c \in keeper.plan.eligible
                   PROVE  \E d \in deletion' : d.plan = keeper.plan /\ d.item = c
        OBVIOUS
      <4>1. CASE \E d \in deletion : d.plan = keeper.plan /\ d.item = c
        BY <1>8, <2>2, <4>1 DEF KeeperAuthorizes
      <4>2. CASE ~\E d \in deletion : d.plan = keeper.plan /\ d.item = c
        <5>1. [plan |-> keeper.plan, item |-> c, state |-> "authorized"] \in deletion'
          BY <1>8, <2>2, <4>2 DEF KeeperAuthorizes
        <5> QED
          BY <5>1
      <4> QED
        BY <4>1, <4>2
    <3>3. keeper.at = "authorize"
      BY <1>8 DEF KeeperAuthorizes
    <3> QED
      BY <3>1, <3>2, <3>3 DEF HandOK, Planning, Deleting
  <2> QED
    BY <2>1, <2>2
<1>9. CASE KeeperDeletes
  <2>1. PICK step \in {"record", "fail"} : keeper' = [keeper EXCEPT !.at = step]
    BY <1>9 DEF KeeperDeletes, MovesTo
  <2>2. keeper'.at = step /\ keeper'.left = keeper.left /\ keeper'.plan = keeper.plan
    BY <1>0, <2>1 DEF KeeperType
  <2>3. Item' = Item /\ (step = "record" => Item \notin bytes')
    BY <1>0, <1>9, <2>2, ItemStays DEF KeeperDeletes, KeeperType, MovesTo
  <2>4. keeper.at = "delete" /\ UNCHANGED <<row, deletion, activity>>
    BY <1>9 DEF KeeperDeletes
  <2> QED
    BY <2>2, <2>3, <2>4 DEF HandOK, Planning, Deleting
<1>10. CASE KeeperRecords \/ KeeperFails
  <2>0. keeper.at \in Deleting /\ UNCHANGED activity
    BY <1>10 DEF KeeperRecords, KeeperFails, Deleting
  <2>1. Item \in keeper.left /\ Intent \in deletion /\ Intent.plan = keeper.plan /\ Intent.item = Item
    BY <2>0, <1>l, ItemIs, IntentIs DEF HandOK
  <2>2. /\ keeper'.plan = keeper.plan
        /\ \/ keeper'.at \in {"clear", "done"}
           \/ keeper'.at = "fail" /\ keeper'.left = keeper.left
           \/ keeper'.at = "delete" /\ keeper'.left = keeper.left \ {Item} /\ keeper.left # {Item}
    <3>1. \/ keeper' = [keeper EXCEPT !.at = "done"] \/ keeper' = [keeper EXCEPT !.at = "fail"]
          \/ \E step \in {"clear", "done"} : keeper' = [keeper EXCEPT !.left = @ \ {Item}, !.at = step]
          \/ keeper.left # {Item} /\ keeper' = [keeper EXCEPT !.left = @ \ {Item}, !.at = "delete"]
      BY <1>10 DEF KeeperRecords, KeeperFails, MovesTo, AfterPlan
    <3> QED
      BY <1>0, <3>1 DEF KeeperType
  <2>3. \A d \in deletion : \E e \in deletion' : e.plan = d.plan /\ e.item = d.item
    BY IntentsStay
  <2>4. \A c \in keeper.left : \E d \in deletion' : d.plan = keeper.plan /\ d.item = c
    BY <2>0, <2>3 DEF HandOK
  <2>5. keeper.at \in Planning
    BY <2>0 DEF Planning, Deleting
  <2>6. keeper.plan \in PlanType /\ \A c \in keeper.plan.eligible : row'[c] # "none"
    BY <2>5, <1>e, <1>g DEF HandOK
  <2>7. keeper'.at \in Deleting => keeper'.left # {} /\ keeper'.left \subseteq keeper.left
    BY <2>1, <2>2 DEF Deleting
  <2>8. keeper'.at \notin {"plan", "authorize", "record"} /\ activity'
    BY <2>0, <2>2 DEF HandOK, Deleting
  <2> QED
    BY <2>0, <2>2, <2>4, <2>6, <2>7, <2>8 DEF HandOK, Deleting
<1>11. CASE KeeperClears \/ KeeperRests
  BY <1>0, <1>11 DEF KeeperClears, KeeperRests, MovesTo, Resting, KeeperType, HandOK, Planning, Deleting
<1> QED
  BY <1>1, <1>2, <1>3, <1>4, <1>5, <1>6, <1>7, <1>8, <1>9, <1>10, <1>11, OthersFrame
  DEF KeeperMoves, KeeperStep

LEMMA AuthorizedStays ==
  Typed /\ HandOK /\ RowsOK /\ JobsOK /\ AuthorizedFirst /\ [Next]_vars => AuthorizedFirst'
<1> SUFFICES ASSUME Typed, HandOK, RowsOK, JobsOK, AuthorizedFirst, [Next]_vars, NEW c \in Checkpoint
             PROVE  /\ row'[c] = "deleted" => c \notin bytes'
                    /\ row'[c] = "available" /\ c \notin bytes' => \E d \in deletion' : d.item = c
  BY DEF AuthorizedFirst
<1>0. row \in [Checkpoint -> {"none", "available", "deleted"}]
  BY DEF Typed, TypeOK
<1>1. /\ row[c] = "deleted" => c \notin bytes
      /\ row[c] = "available" /\ c \notin bytes => \E d \in deletion : d.item = c
  BY DEF AuthorizedFirst
<1>2. (\E d \in deletion : d.item = c) => \E d \in deletion' : d.item = c
  BY IntentsStay
<1>l. keeper.left \subseteq Checkpoint
  BY DEF Typed, KeeperType
<1>3. CASE RunSucceeds /\ lane[2] = "train"
  <2>1. lane[1] \in Checkpoint /\ row[lane[1]] = "none"
    BY <1>3, WrittenAnew, Sessions
  <2>2. row' = [row EXCEPT ![lane[1]] = "available"] /\ bytes' = bytes \cup {lane[1]}
    BY <1>3 DEF RunSucceeds
  <2> QED
    BY <1>0, <1>1, <1>2, <2>1, <2>2
<1>4. CASE KeeperDeletes /\ row' = row /\ bytes' = bytes \ {Item}
  <2>1. Item \in keeper.left /\ \E d \in deletion : d.item = Item
    BY <1>4, <1>l, ItemIs DEF KeeperDeletes, HandOK, Deleting
  <2> QED
    BY <1>1, <1>2, <1>4, <2>1
<1>5. CASE /\ KeeperRecords /\ bytes' = bytes
           /\ row' = [row EXCEPT ![Item] = "deleted"] /\ row[Item] = "available"
  <2>1. Item \in Checkpoint /\ Item \notin bytes
    BY <1>5, <1>l, ItemIs DEF KeeperRecords, HandOK, Deleting
  <2> QED
    BY <1>0, <1>1, <1>2, <1>5, <2>1
<1>6. CASE UNCHANGED files
  BY <1>1, <1>2, <1>6 DEF files
<1> QED
  BY <1>3, <1>4, <1>5, <1>6, FilesMove

-----------------------------------------------------------------------------
(* Retirable checkpoints.                                                  *)

(* Once retirable, always: the stages that read such a checkpoint are      *)
(* created already, and none of them waits again unless by hand.           *)
LEMMA RetirableStays ==
  ASSUME Typed, SessionsOK, [Next]_vars, NEW c \in Checkpoint, Retirable(c)
  PROVE  Retirable(c)'
<1>1. JobsProgress
  BY JobsOnlyProgress DEF SessionsOK
<1>2. c + 1 \in Session /\ Trained(c + 1) /\ c \in Nat
  BY Sessions DEF Retirable
<1>3. Trained(c + 1)' /\ (EvaluationRequired(c + 1)' => Evaluated(c + 1)') /\ c \notin recipe'.preserved
  BY <1>1, <1>2, DonePersists DEF Retirable, JobsProgress
<1>4. ASSUME NEW s \in Stage \ retried' PROVE c \notin NeededBy(s)'
  <2> SUFFICES ASSUME Live(s)', c \in Inputs(s) PROVE FALSE
    BY DEF NeededBy, Live, Inputs
  <2>1. s \in Stage \ retried /\ ~Live(s)
    BY <1>1 DEF JobsProgress, Retirable, NeededBy, Live
  <2>2. CreateStage /\ s = NextStage /\ job[s] = "none"
    BY <1>1, <2>1 DEF JobsProgress, Creates
  <2>3. PICK f \in Session :
          /\ ~SessionDone(f)
          /\ s = <<f, "train">> \/ (s = <<f, "evaluate">> /\ EvaluationRequired(f))
    BY <2>2, DueIs DEF CreateStage
  <2>4. f \in Nat /\ (c = f - 1 \/ c = f) /\ (s = <<f, "train">> => c = f - 1)
    BY <2>3, Sessions DEF Inputs
  <2>5. CASE c = f - 1
    <3>1. f = c + 1 /\ job[<<f, "train">>] = "succeeded"
      BY <1>2, <2>4, <2>5 DEF Trained
    <3>2. s = <<f, "evaluate">> /\ EvaluationRequired(f)
      BY <2>2, <2>3, <3>1
    <3> QED
      BY <2>2, <3>1, <3>2 DEF Retirable, Evaluated, CreateStage, Due
  <2>6. CASE c = f
    <3>1. c \in 1..((c + 1) - 1) /\ job[<<c + 1, "train">>] # "none"
      BY <1>2, <2>3, <2>6 DEF Trained, Session
    <3> QED
      BY <1>2, <2>3, <2>6, <3>1 DEF SessionsOK, InOrder
  <2> QED
    BY <2>4, <2>5, <2>6
<1> QED
  BY <1>2, <1>3, <1>4 DEF Retirable

(* What the ledger does not want protected, and the recipe does not        *)
(* preserve, is retirable when every trained session has its evaluation.   *)
LEMMA UnwantedRetirable ==
  ASSUME Typed, SessionsOK, EvaluationLinked,
         NEW c \in Checkpoint, row[c] = "available", c \notin WantedProtected, c \notin kept
  PROVE  Retirable(c)
<1>1. c \notin Declared /\ ~Head(c) /\ \A s \in Stage : c \notin NeededBy(s)
  BY DEF WantedProtected
<1>2. c \in Session /\ c \in Nat
  BY <1>1, FrontierAssumption, Sessions DEF Checkpoint, Session
<1>3. Trained(c)
  BY <1>2 DEF SessionsOK, RowsOK
<1>4. c + 1 \in Session /\ Trained(c + 1)
  BY <1>1, <1>2, <1>3 DEF Head, Ended, Trained, SessionsOK, JobsOK
<1>5. c \in recipe.preserved => c \in kept
  <2>1. c \in 1..((c + 1) - 1) /\ job[<<c + 1, "train">>] # "none"
    BY <1>2, <1>4 DEF Trained, Session
  <2> QED
    BY <1>4, <2>1 DEF SessionsOK, InOrder
<1> QED
  BY <1>1, <1>4, <1>5 DEF Retirable, EvaluationLinked

(* A prune request that is ready, or none, leaves no evaluation to be      *)
(* linked.                                                                 *)
LEMMA ReadyLinked ==
  ASSUME RequestOK, \A k \in Session : Trained(k) => <<k, "train">> \in linked,
         request = Null \/ PruneReady(request)
  PROVE  EvaluationLinked
<1> SUFFICES ASSUME NEW k \in Session, Trained(k), EvaluationRequired(k), ~Evaluated(k) PROVE FALSE
  BY DEF EvaluationLinked
<1>1. request = <<k, "train">> /\ request \in linked /\ request # Null
  BY StageKey, FrontierAssumption DEF RequestOK
<1>2. PruneReady(<<k, "train">>)
  BY <1>1
<1> QED
  BY <1>1, <1>2 DEF PruneReady, Evaluated, EvaluationRequired

-----------------------------------------------------------------------------
(* While no step has overtaken the bookkeeping.                            *)

LEMMA TrainedLinkedStays ==
  ASSUME Typed, SessionsOK, [Next]_vars, ~early', Followed
  PROVE  \A k \in Session : Trained(k)' => <<k, "train">> \in linked'
<1> SUFFICES ASSUME NEW k \in Session, Trained(k)' PROVE <<k, "train">> \in linked'
  OBVIOUS
<1>1. JobsProgress
  BY JobsOnlyProgress DEF SessionsOK
<1>2. CASE Trained(k)
  BY <1>1, <1>2 DEF Followed, JobsProgress
<1>3. CASE RunSucceeds /\ lane = <<k, "train">>
  BY <1>3 DEF RunSucceeds
<1> QED
  BY <1>1, <1>2, <1>3, StageKey DEF JobsProgress, Ended, Trained, SessionsOK, JobsOK

(* A stage that ends leaves the only request that is due: the sessions     *)
(* before it are done, and none after it has been created.                 *)
LEMMA RequestOfEnded ==
  ASSUME Typed, SessionsOK, [Next]_vars, ~early', RunSucceeds
  PROVE  RequestOK'
<1>1. JobsProgress
  BY JobsOnlyProgress DEF SessionsOK
<1>2. PICK f \in Session : lane = <<f, "train">> \/ lane = <<f, "evaluate">>
  BY StageKey DEF RunSucceeds
<1>3. job[lane] = "running" /\ lane \in linked /\ request' = lane
  BY FrontierAssumption DEF RunSucceeds, SessionsOK, JobsOK
<1> SUFFICES ASSUME NEW k \in Session, Trained(k)', EvaluationRequired(k)', ~Evaluated(k)'
             PROVE  request' = <<k, "train">>
  BY DEF RequestOK
<1>4. EvaluationRequired(k) /\ ~Evaluated(k) /\ ~SessionDone(k)
  BY <1>1, DonePersists, StageKey DEF SessionDone, Linked, Evaluated
<1>5. k \in Nat /\ f \in Nat
  BY Sessions
<1>6. CASE k < f
  <2>1. k \in 1..(f - 1)
    BY <1>5, <1>6 DEF Session
  <2>2. job[<<f, "train">>] # "none"
    BY <1>2, <1>3 DEF SessionsOK, InOrder, Trained
  <2> QED
    BY <1>4, <2>1, <2>2 DEF SessionsOK, InOrder
<1>7. CASE k > f
  <2>1. f \in 1..(k - 1)
    BY <1>5, <1>7, Sessions DEF Session
  <2>2. job[<<k, "train">>] # "none"
    <3>0. lane # <<k, "train">>
      BY <1>2, <1>5, <1>7
    <3>1. Ended(<<k, "train">>)' /\ lane # <<k, "train">> /\ <<k, "train">> \in Stage
      BY <3>0, StageKey DEF Ended, Trained
    <3>2. Ended(<<k, "train">>)
      BY <1>1, <3>1 DEF JobsProgress
    <3> QED
      BY <3>2 DEF Ended
  <2>3. SessionDone(f)
    BY <2>1, <2>2 DEF SessionsOK, InOrder
  <2>4. CASE lane = <<f, "train">>
    BY <1>3, <2>3, <2>4 DEF SessionDone, Linked
  <2>5. CASE lane = <<f, "evaluate">>
    <3>1. EvaluationRequired(f)
      BY <1>3, <2>5 DEF SessionsOK, InOrder
    <3> QED
      BY <1>3, <2>3, <2>5, <3>1 DEF SessionDone, Linked
  <2> QED
    BY <1>2, <2>4, <2>5
<1>8. CASE k = f
  <2>1. lane # <<k, "evaluate">>
    BY <1>3, <1>4 DEF Evaluated
  <2> QED
    BY <1>2, <1>3, <1>8, <2>1
<1> QED
  BY <1>5, <1>6, <1>7, <1>8

(* Nothing runs at a quiet boundary, so nothing ends at it.                *)
LEMMA QuietSaves ==
  ASSUME Typed, SessionsOK, [Next]_vars, ~LiveRun
  PROVE  /\ ~RunSucceeds
         /\ EvaluationLinked => EvaluationLinked'
         /\ \A c \in Checkpoint : row'[c] = "available" => row[c] = "available"
<1>1. ~RunSucceeds
  BY FrontierAssumption DEF RunSucceeds, SessionsOK, JobsOK, LiveRun
<1>2. JobsProgress
  BY JobsOnlyProgress DEF SessionsOK
<1>3. ASSUME EvaluationLinked, NEW k \in Session, Trained(k)', EvaluationRequired(k)' PROVE Evaluated(k)'
  <2>1. Trained(k)
    BY <1>1, <1>2, <1>3, StageKey DEF JobsProgress, Ended, Trained, SessionsOK, JobsOK
  <2> QED
    BY <1>2, <1>3, <2>1, DonePersists DEF EvaluationLinked
<1>4. ASSUME NEW c \in Checkpoint, row'[c] = "available" PROVE row[c] = "available"
  BY <1>1, <1>4, FilesMove DEF files, Typed, TypeOK
<1> QED
  BY <1>1, <1>3, <1>4 DEF EvaluationLinked

LEMMA RequestStays ==
  ASSUME Typed, SessionsOK, [Next]_vars, ~early', Followed
  PROVE  RequestOK'
<1>1. CASE RunSucceeds
  BY <1>1, RequestOfEnded
<1>2. CASE ~RunSucceeds
  <2>1. JobsProgress
    BY JobsOnlyProgress DEF SessionsOK
  <2> SUFFICES ASSUME NEW k \in Session, Trained(k)', EvaluationRequired(k)', ~Evaluated(k)'
               PROVE  request' = <<k, "train">>
    BY DEF RequestOK
  <2>2. Trained(k) /\ EvaluationRequired(k) /\ ~Evaluated(k)
    BY <1>2, <2>1, DonePersists, StageKey DEF JobsProgress, Ended, Trained, SessionsOK, JobsOK
  <2>3. request = <<k, "train">>
    BY <2>2 DEF Followed, RequestOK
  <2>4. ~KeeperClears
    BY <2>2 DEF KeeperClears, Followed, Quiet, EvaluationLinked
  <2>5. request' = request
    <3>1. CASE CoordinatorStep
      BY <3>1 DEF CoordinatorStep, Terminate, Block, CreateStage, LinkStage, FinishWorkflow, Ends, retention
    <3>2. CASE LaneStep \/ LeaseExpires \/ SwitchPipeline \/ DispatchOnce \/ RetryStage \/ DaemonDies
      BY <1>2, <3>2 DEF LaneStep, PassGate, Lease, NothingToLease, RunFails, LeaseExpires, SwitchPipeline,
         DispatchOnce, RetryStage, DaemonDies, Takes, retention
    <3>3. CASE KeeperMoves
      BY <2>4, <3>3 DEF KeeperMoves, KeeperPolls, KeeperStep, KeeperChecks, KeeperDerives, KeeperReleases,
         KeeperPlans, KeeperAuthorizes, KeeperDeletes, KeeperRecords, KeeperFails, KeeperRests
    <3>4. CASE UNCHANGED vars
      BY <3>4 DEF vars, retention
    <3> QED
      BY <3>1, <3>2, <3>3, <3>4 DEF Next, KeeperMoves
  <2> QED
    BY <2>3, <2>5
<1> QED
  BY <1>1, <1>2

(* No run is started while the thread works: it has published its activity *)
(* before, and a lease that is taken under it has overtaken it.            *)
LEMMA NothingStarts ==
  ASSUME Typed, HandOK, SessionsOK, [Next]_vars, ~early', keeper.at # "idle", ~LiveRun
  PROVE  ~LiveRun'
<1>1. ~Takes
  BY DEF Takes, HandOK
<1>2. lane = Null
  BY FrontierAssumption DEF SessionsOK, JobsOK, LiveRun, Typed, TypeOK
<1>0. job \in [Stage -> JobStatus]
  BY DEF Typed, TypeOK
<1>3. CASE CreateStage
  <2>1. NextStage \in Stage
    BY <1>3, DueIs, StageKey DEF CreateStage
  <2> QED
    BY <1>0, <1>3, <2>1 DEF CreateStage, LiveRun
<1>4. CASE Terminate \/ Block \/ LinkStage \/ FinishWorkflow
  BY <1>4 DEF Terminate, Block, LinkStage, FinishWorkflow, Ends, LiveRun
<1>5. CASE PassGate \/ NothingToLease \/ SwitchPipeline \/ DaemonDies
  BY <1>5 DEF PassGate, NothingToLease, SwitchPipeline, DaemonDies, LiveRun
<1>6. CASE RunSucceeds \/ RunFails \/ LeaseExpires
  BY <1>2, <1>6, FrontierAssumption DEF RunSucceeds, RunFails, LeaseExpires, LiveRun
<1>7. CASE RetryStage
  BY <1>0, <1>7 DEF RetryStage, LiveRun
<1>8. CASE KeeperMoves \/ UNCHANGED vars
  BY <1>8, KeeperFrame DEF vars, runs, LiveRun
<1> QED
  BY <1>1, <1>3, <1>4, <1>5, <1>6, <1>7, <1>8
  DEF Next, CoordinatorStep, LaneStep, Lease, DispatchOnce, KeeperMoves

LEMMA QuietStays ==
  ASSUME Typed, HandOK, SessionsOK, [Next]_vars, ~early', Followed, Quiet'
  PROVE  ~LiveRun' /\ EvaluationLinked'
<1>0. keeper \in KeeperType
  BY DEF Typed
<1>1. CASE Quiet
  <2>1. ~LiveRun /\ EvaluationLinked /\ keeper.at # "idle"
    BY <1>1 DEF Followed, Quiet
  <2> QED
    BY <2>1, NothingStarts, QuietSaves
<1>2. CASE ~Quiet
  <2>1. ~UNCHANGED keeper
    BY <1>2 DEF Quiet
  <2>2. ~DaemonDies
    BY DEF DaemonDies, Resting, Quiet
  <2>3. KeeperMoves
    BY <2>1, <2>2, OthersFrame
  (* The boundary is found quiet by the poll or by the look before the work. *)
  <2>4. /\ KeeperPolls \/ KeeperChecks
        /\ ~LiveRun /\ (request = Null \/ PruneReady(request))
    <3>1. CASE KeeperPolls
      BY <3>1 DEF KeeperPolls, Quiet, Resting
    <3>2. CASE KeeperChecks
      <4>1. keeper.why = "prune"
        BY <1>2, <3>2 DEF KeeperChecks, Quiet
      <4>2. ~LiveRun /\ request # Null /\ PruneReady(request)
        BY <1>0, <3>2, <4>1 DEF KeeperChecks, Quiet, KeeperType
      <4> QED
        BY <3>2, <4>2
    <3>3. CASE KeeperStep /\ ~KeeperChecks
      <4>1. keeper.at = "done" /\ KeeperRests
        BY <1>2, <3>3 DEF KeeperStep, KeeperDerives, KeeperReleases, KeeperPlans, KeeperAuthorizes, KeeperDeletes,
           KeeperRecords, KeeperFails, KeeperClears, KeeperRests, Quiet
      <4> QED
        BY <4>1 DEF KeeperRests, Resting, Quiet
    <3> QED
      BY <2>3, <3>1, <3>2, <3>3 DEF KeeperMoves
  <2>5. EvaluationLinked
    BY <2>4, ReadyLinked DEF Followed
  <2>6. ~LiveRun'
    BY <2>3, <2>4, KeeperFrame DEF runs, LiveRun
  <2> QED
    BY <2>4, <2>5, <2>6, QuietSaves
<1> QED
  BY <1>1, <1>2

LEMMA SparesStays ==
  ASSUME Typed, HandOK, SessionsOK, [Next]_vars, ~early', Followed
  PROVE  Spares'
<1>0. keeper \in KeeperType
  BY DEF Typed
<1>s. \A c \in Checkpoint : Retirable(c) => Retirable(c)'
  BY RetirableStays
<1>k. recipe' = recipe /\ kept \subseteq kept'
  BY JobsOnlyProgress DEF JobsProgress, SessionsOK
<1>e. keeper.plan \in PlanType => keeper.plan.eligible \subseteq Checkpoint
  BY DEF PlanType
<1>l. keeper.left \subseteq Checkpoint
  BY <1>0 DEF KeeperType
<1>1. CASE UNCHANGED keeper
  <2>1. keeper.at \in {"release", "plan"} =>
          \A c \in Checkpoint \ (keeper.wanted \cup kept') : row'[c] = "available" => Retirable(c)'
    <3> SUFFICES ASSUME keeper.at \in {"release", "plan"},
                        NEW c \in Checkpoint \ (keeper.wanted \cup kept'), row'[c] = "available"
                 PROVE  Retirable(c)'
      OBVIOUS
    <3>1. row[c] = "available"
      BY QuietSaves DEF Followed, Spares, Quiet
    <3> QED
      BY <1>k, <1>s, <3>1 DEF Followed, Spares
  <2>2. keeper.at = "authorize" => \A c \in keeper.plan.eligible : Retirable(c)'
    BY <1>e, <1>s DEF Followed, Spares, HandOK, Planning
  <2>3. keeper.at \in Deleting => \A c \in keeper.left : Retirable(c)'
    BY <1>l, <1>s DEF Followed, Spares
  <2> QED
    BY <1>1, <2>1, <2>2, <2>3 DEF Spares, Deleting
<1>2. CASE keeper'.at \notin {"release", "plan", "authorize", "delete", "record", "fail"}
  BY <1>2 DEF Spares, Deleting
<1>3. CASE KeeperDerives /\ keeper'.at = "release"
  <2>1. keeper'.wanted = WantedProtected /\ UNCHANGED <<row, kept>>
    BY <1>0, <1>3 DEF KeeperDerives, KeeperType, MovesTo, KeeperOnly, files
  <2>2. EvaluationLinked
    BY <1>3 DEF KeeperDerives, Followed, Spares, Quiet
  <2>3. \A c \in Checkpoint \ (WantedProtected \cup kept) : row[c] = "available" => Retirable(c)
    BY <2>2, UnwantedRetirable
  <2> QED
    BY <1>3, <1>s, <2>1, <2>3 DEF Spares, Deleting
<1>4. CASE KeeperReleases
  <2>1. keeper.at = "release" /\ keeper'.at = "plan" /\ keeper'.wanted = keeper.wanted /\ UNCHANGED <<row, kept>>
    BY <1>0, <1>4 DEF KeeperReleases, KeeperType, MovesTo, KeeperOnly, files
  <2> QED
    BY <1>s, <2>1 DEF Spares, Deleting, Followed
<1>5. CASE KeeperPlans /\ keeper'.at = "authorize"
  <2>1. keeper.at = "plan" /\ keeper'.plan = Inventory /\ auto = keeper.wanted
    BY <1>0, <1>5 DEF KeeperPlans, KeeperType, HandOK
  <2>2. \A c \in Inventory.eligible :
          c \in Checkpoint \ (keeper.wanted \cup kept) /\ row[c] = "available"
    BY <2>1 DEF Inventory
  <2>3. \A c \in Inventory.eligible : Retirable(c)'
    BY <1>s, <2>1, <2>2 DEF Followed, Spares
  <2> QED
    BY <1>5, <2>1, <2>3 DEF Spares, Deleting
<1>6. CASE KeeperAuthorizes /\ keeper'.at \in Deleting
  <2>1. keeper.at = "authorize" /\ keeper'.left = keeper.plan.eligible
    BY <1>0, <1>6 DEF KeeperAuthorizes, KeeperType, MovesTo, Deleting
  <2>2. \A c \in keeper.plan.eligible : Retirable(c)'
    BY <1>e, <1>s, <2>1 DEF Followed, Spares, HandOK, Planning
  <2> QED
    BY <1>6, <2>1, <2>2 DEF Spares, Deleting
<1>7. CASE KeeperDeletes \/ KeeperRecords \/ KeeperFails
  <2>1. keeper.at \in Deleting
    BY <1>7 DEF KeeperDeletes, KeeperRecords, KeeperFails, Deleting
  <2>2. /\ keeper'.left \subseteq keeper.left
        /\ keeper'.at \notin {"release", "plan", "authorize"}
    <3>1. \/ \E step \in {"record", "fail", "done"} : keeper' = [keeper EXCEPT !.at = step]
          \/ \E step \in {"delete", "clear", "done"} : keeper' = [keeper EXCEPT !.left = @ \ {Item}, !.at = step]
      BY <1>7 DEF KeeperDeletes, KeeperRecords, KeeperFails, MovesTo, AfterPlan
    <3> QED
      BY <1>0, <3>1 DEF KeeperType
  <2>3. \A c \in keeper.left : Retirable(c)'
    BY <1>l, <1>s, <2>1 DEF Followed, Spares
  <2> QED
    BY <2>2, <2>3 DEF Spares
<1>8. CASE KeeperPolls \/ KeeperChecks \/ KeeperClears \/ KeeperRests \/ DaemonDies
  <2>1. KeeperPolls \/ KeeperRests \/ DaemonDies => keeper'.at \in {"idle", "check"}
    <3>1. KeeperPolls => keeper'.at = "check"
      BY DEF KeeperPolls, Resting
    <3>2. KeeperRests \/ DaemonDies => keeper'.at = "idle"
      BY DEF KeeperRests, DaemonDies, Resting
    <3> QED
      BY <3>1, <3>2
  <2>2. KeeperChecks => keeper'.at \in {"derive", "done"}
    BY <1>0 DEF KeeperChecks, KeeperType
  <2>3. KeeperClears => keeper'.at = "done"
    BY <1>0 DEF KeeperClears, MovesTo, KeeperType
  <2> QED
    BY <1>2, <1>8, <2>1, <2>2, <2>3
<1>9. CASE KeeperDerives
  <2>1. keeper'.at \in {"release", "done"}
    BY <1>0, <1>9 DEF KeeperDerives, KeeperType, MovesTo
  <2> QED
    BY <1>2, <1>3, <1>9, <2>1
<1>10. CASE KeeperPlans
  <2>1. keeper'.at \in {"authorize", "clear", "done"}
    <3>1. \E step \in {"authorize", "clear", "done"} : keeper' = [keeper EXCEPT !.plan = Inventory, !.at = step]
      BY <1>10 DEF KeeperPlans, AfterPlan
    <3> QED
      BY <1>0, <3>1 DEF KeeperType
  <2> QED
    BY <1>2, <1>5, <1>10, <2>1
<1>11. CASE KeeperAuthorizes
  <2>1. keeper'.at \in {"delete", "done"}
    BY <1>0, <1>11 DEF KeeperAuthorizes, KeeperType, MovesTo
  <2> QED
    BY <1>2, <1>6, <1>11, <2>1 DEF Deleting
<1> QED
  BY <1>1, <1>4, <1>7, <1>8, <1>9, <1>10, <1>11, OthersFrame DEF KeeperMoves, KeeperStep

LEMMA GoneStays ==
  ASSUME Typed, HandOK, SessionsOK, [Next]_vars, Followed, NEW c \in Checkpoint, row'[c] # "none", c \notin bytes'
  PROVE  Retirable(c)'
<1>0. row \in [Checkpoint -> {"none", "available", "deleted"}]
  BY DEF Typed, TypeOK
<1>l. keeper.left \subseteq Checkpoint
  BY DEF Typed, KeeperType
<1> SUFFICES Retirable(c)
  BY RetirableStays
<1>1. CASE RunSucceeds /\ lane[2] = "train"
  <2>1. lane[1] \in Checkpoint /\ row' = [row EXCEPT ![lane[1]] = "available"] /\ bytes' = bytes \cup {lane[1]}
    BY <1>1, WrittenAnew, Sessions DEF RunSucceeds, SessionsOK
  <2> QED
    BY <1>0, <2>1 DEF Followed
<1>2. CASE KeeperDeletes /\ row' = row /\ bytes' = bytes \ {Item}
  <2>1. Item \in keeper.left /\ Retirable(Item)
    BY <1>2, <1>l, ItemIs DEF KeeperDeletes, HandOK, Deleting, Followed, Spares
  <2> QED
    BY <1>2, <2>1 DEF Followed
<1>3. CASE KeeperRecords /\ bytes' = bytes /\ row' = [row EXCEPT ![Item] = "deleted"] /\ row[Item] = "available"
  BY <1>0, <1>3 DEF Followed
<1>4. CASE UNCHANGED files
  BY <1>4 DEF files, Followed
<1> QED
  BY <1>1, <1>2, <1>3, <1>4, FilesMove

LEMMA FollowedStays ==
  ASSUME Typed, HandOK, SessionsOK, [Next]_vars, ~early', Followed
  PROVE  Followed'
<1>1. \A k \in Session : Trained(k)' => <<k, "train">> \in linked'
  BY TrainedLinkedStays
<1>2. RequestOK'
  BY RequestStays
<1>3. Quiet' => ~LiveRun' /\ EvaluationLinked'
  BY QuietStays
<1>4. Spares'
  BY SparesStays
<1>5. \A c \in Checkpoint : row'[c] # "none" /\ c \notin bytes' => Retirable(c)'
  BY GoneStays
<1> QED
  BY <1>1, <1>2, <1>3, <1>4, <1>5 DEF Followed

-----------------------------------------------------------------------------
(* The theorems.                                                           *)

LEMMA InvInit == Init => FrontierInv
<1> SUFFICES ASSUME Init PROVE FrontierInv
  OBVIOUS
<1>1. Typed
  <2>1. keeper \in KeeperType /\ keeper.at = "idle"
    BY KeeperRecord DEF Init, KeeperType, Resting
  <2>2. job \in [Stage -> JobStatus]
    BY DEF Init, JobStatus
  <2>3. row \in [Checkpoint -> {"none", "available", "deleted"}]
    BY DEF Init
  <2>4. interventions \in 0..MaxInterventions /\ scans \in 0..MaxScans
    BY FrontierAssumption DEF Init
  <2> QED
    BY <2>1, <2>2, <2>3, <2>4, Sessions DEF Init, Typed, TypeOK, ScanCounted
<1>2. row[0] # "none" /\ \A c \in Checkpoint : row[c] # "none" => c = 0
  BY Sessions DEF Init
<1>3. \A s \in Stage : job[s] = "none"
  BY DEF Init
<1>4. RowsOK /\ JobsOK /\ InOrder /\ KeptOK
  <2>1. \A k \in Session : k \in Checkpoint /\ k # 0
    BY Sessions DEF Session
  <2>2. \A k \in Session : job[<<k, "train">>] = "none" /\ job[<<k, "evaluate">>] = "none"
    BY <1>3, StageKey
  <2> QED
    BY <1>2, <2>1, <2>2 DEF Init, RowsOK, JobsOK, InOrder, KeptOK, Trained
<1>5. HandOK
  BY DEF Init, HandOK, Resting, Planning, Deleting
<1>6. AuthorizedFirst
  BY <1>2 DEF Init, AuthorizedFirst
<1>7. Followed
  <2>1. \A k \in Session : ~Trained(k)
    BY <1>3, StageKey DEF Trained
  <2>2. \A c \in Checkpoint : row[c] # "none" => c \in bytes
    BY <1>2 DEF Init
  <2>3. Spares /\ ~Quiet
    BY DEF Init, Resting, Spares, Deleting, Quiet
  <2> QED
    BY <2>1, <2>2, <2>3 DEF Followed, RequestOK
<1> QED
  BY <1>1, <1>4, <1>5, <1>6, <1>7 DEF FrontierInv

LEMMA InvStep == FrontierInv /\ [Next]_vars => FrontierInv'
<1> SUFFICES ASSUME FrontierInv, [Next]_vars PROVE FrontierInv'
  OBVIOUS
<1>1. Typed /\ HandOK /\ SessionsOK /\ AuthorizedFirst
  BY DEF FrontierInv, SessionsOK
<1>2. Typed' /\ HandOK' /\ SessionsOK' /\ AuthorizedFirst'
  BY <1>1, NextTyped, HandStays, SessionsStay, AuthorizedStays DEF SessionsOK
<1>3. early => early'
  BY <1>1, JobsOnlyProgress DEF JobsProgress, SessionsOK
<1>4. ~early' => Followed'
  BY <1>1, <1>3, FollowedStays DEF FrontierInv
<1> QED
  BY <1>2, <1>4 DEF FrontierInv, SessionsOK

(* The invariant holds of every reachable state, whatever the fairness.    *)
THEOREM FrontierInvariant == Spec => []FrontierInv
<1>1. Init => FrontierInv
  BY InvInit
<1>2. FrontierInv /\ [Next]_vars => FrontierInv'
  BY InvStep
<1> QED
  BY <1>1, <1>2, PTL DEF Spec

(* Every variable keeps its type: no counter passes its bound, and what    *)
(* the retention thread holds is a plan, a stage and checkpoints.          *)
THEOREM FrontierTypeCorrect == Spec => []TypeOK
<1>1. FrontierInv => TypeOK
  BY DEF FrontierInv, Typed
<1> QED
  BY <1>1, FrontierInvariant, PTL

(* A checkpoint file is gone only under a deletion that the ledger had     *)
(* authorized, and the ledger calls none deleted that is still there,      *)
(* whatever reply of the trainbox is lost and whenever the daemon dies.    *)
THEOREM AuthorizedCorrect == Spec => []AuthorizedFirst
<1>1. FrontierInv => AuthorizedFirst
  BY DEF FrontierInv
<1> QED
  BY <1>1, FrontierInvariant, PTL

(* Retention never takes what a waiting or running stage reads, nor what   *)
(* the recipe preserves, for any number of sessions and any recipe.        *)
THEOREM CheckpointsCorrect == Spec => []CheckpointsKept
<1>1. ASSUME FrontierInv PROVE CheckpointsKept
  <2> SUFFICES ASSUME ~early
               PROVE  /\ \A s \in Stage \ retried : NeededBy(s) \subseteq bytes
                      /\ kept \subseteq bytes
    BY DEF CheckpointsKept
  <2>0. Typed /\ SessionsOK /\ Followed
    BY <1>1 DEF FrontierInv, SessionsOK
  <2>1. ASSUME NEW s \in Stage \ retried, NEW c \in NeededBy(s) PROVE c \in bytes
    <3>1. PICK k \in Session : s = <<k, "train">> \/ s = <<k, "evaluate">>
      BY StageKey
    <3>2. /\ job[s] \in {"queued", "running"} /\ k \in Nat
          /\ c = k - 1 \/ (c = k /\ s = <<k, "evaluate">>)
      BY <2>1, <3>1, Sessions DEF NeededBy, Inputs
    <3>3. job[<<k, "train">>] # "none" /\ (s = <<k, "evaluate">> => Trained(k))
      BY <2>0, <3>1, <3>2 DEF SessionsOK, InOrder, Trained
    <3>4. c \in Checkpoint /\ row[c] # "none"
      <4>1. CASE c = k
        BY <2>0, <3>2, <3>3, <4>1, Sessions DEF SessionsOK, RowsOK
      <4>2. CASE c = k - 1 /\ k = 1
        BY <2>0, <4>2, Sessions DEF SessionsOK, RowsOK
      <4>3. CASE c = k - 1 /\ k # 1
        <5>1. c \in 1..(k - 1) /\ c \in Session
          BY <3>2, <4>3, Sessions DEF Session
        <5>2. SessionDone(c)
          BY <2>0, <3>3, <5>1 DEF SessionsOK, InOrder
        <5> QED
          BY <2>0, <5>1, <5>2, Sessions DEF SessionsOK, RowsOK, SessionDone, Linked, Trained
      <4> QED
        BY <3>2, <4>1, <4>2, <4>3
    <3> QED
      BY <2>0, <2>1, <3>4 DEF Followed, Retirable
  <2>2. ASSUME NEW c \in kept PROVE c \in bytes
    <3>1. c \in Checkpoint /\ row[c] # "none" /\ c \in recipe.preserved
      BY <2>0, <2>2, Sessions DEF SessionsOK, KeptOK, RowsOK, Typed, TypeOK
    <3> QED
      BY <2>0, <3>1 DEF Followed, Retirable
  <2> QED
    BY <2>1, <2>2
<1> QED
  BY <1>1, FrontierInvariant, PTL
=============================================================================
