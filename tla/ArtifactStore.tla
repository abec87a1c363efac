--------------------------- MODULE ArtifactStore ---------------------------
(***************************************************************************)
(* The copies of one checkpoint: content-addressed objects on the hub and  *)
(* on the trainbox, and the files its runs left under the build roots of   *)
(* the trainbox.  Transfers add copies, retention deletes build files, and *)
(* the ledger records where copies are.                                    *)
(***************************************************************************)
EXTENDS Naturals, FiniteSets, FiniteSetsExt

CONSTANTS
    Builds,      \* numbers of the build files, in the order of their paths
    Movers,      \* transfers that may go on at once
    Cleaners,    \* processes that clean up: the daemon and operators' commands
    MaxTrouble,  \* bound: cut connections, lost answers, crashes
    MaxScans,    \* bound: reconciled inventories
    Null

Hub == 0             \* the object file of the hub
Box == 100           \* the object file of the trainbox
Locations == Builds \cup {Hub, Box}

VARIABLES
    artifact,  \* its row: lifecycle, active protection, reconciled inventories
    at,        \* its locations with available = 1
    bytes,     \* what the files hold
    run,       \* the training run that writes a build file
    mover,     \* the transfers
    cleaner,   \* the clean-ups
    deletion,  \* rows of retention_deletions
    trouble

vars == <<artifact, at, bytes, run, mover, cleaner, deletion, trouble>>

NoMove == [kind |-> Null, from |-> Null, step |-> "idle", temp |-> "none"]
Resting == [step |-> "idle", found |-> {}, plan |-> Null, left |-> {}]

TypeOK ==
    /\ artifact \in [row : {"none", "kept", "deleted"}, pinned : BOOLEAN, scans : 0 .. MaxScans]
    /\ at \subseteq Locations
    /\ bytes \in [Locations -> {"none", "torn", "whole"}]
    /\ run \in [Builds -> {"none", "live", "ended"}]
    /\ mover \in [Movers -> [kind : {"put", "get", "ingest", Null}, from : Locations \cup {Null},
                             step : {"idle", "open", "new", "stored"}, temp : {"none", "torn", "whole"}]]
    /\ \A c \in Cleaners :
          /\ cleaner[c].step \in {"idle", "scanned", "planned", "cleared", "deleting", "deleted", "refused"}
          /\ cleaner[c].found \subseteq Builds /\ cleaner[c].left \subseteq Builds
    /\ \A d \in deletion : d.at \in Builds /\ d.state \in {"authorized", "deleted", "failed"}
    /\ trouble \in 0 .. MaxTrouble

Init ==
    /\ artifact = [row |-> "none", pinned |-> FALSE, scans |-> 0]
    /\ at = {} /\ bytes = [l \in Locations |-> "none"] /\ run = [b \in Builds |-> "none"]
    /\ mover = [m \in Movers |-> NoMove] /\ cleaner = [c \in Cleaners |-> Resting]
    /\ deletion = {} /\ trouble = 0

Trouble == trouble < MaxTrouble /\ trouble' = trouble + 1

-----------------------------------------------------------------------------
(* Rows.                                                                   *)

\* A row that says 'deleted' keeps saying it.
Registered == IF artifact.row = "none" THEN "kept" ELSE artifact.row

Register(l) == artifact' = [artifact EXCEPT !.row = Registered] /\ at' = at \cup {l}

Readable(l) == artifact.row = "kept" /\ l \in at

RecordLocation(l) == artifact.row = "kept" /\ at' = at \cup {l}

Protect ==
    /\ artifact.row = "kept" /\ ~artifact.pinned
    /\ \A d \in deletion : d.state # "authorized"
    /\ artifact' = [artifact EXCEPT !.pinned = TRUE]
    /\ UNCHANGED <<at, bytes, run, mover, cleaner, deletion, trouble>>

Release ==
    /\ artifact.pinned /\ artifact' = [artifact EXCEPT !.pinned = FALSE]
    /\ UNCHANGED <<at, bytes, run, mover, cleaner, deletion, trouble>>

-----------------------------------------------------------------------------
(* Training runs.                                                          *)

StartTraining(b) ==
    /\ run[b] = "none" /\ run' = [run EXCEPT ![b] = "live"]
    /\ bytes' = [bytes EXCEPT ![b] = "torn"]
    /\ UNCHANGED <<artifact, at, mover, cleaner, deletion, trouble>>

FinishTraining(b) ==
    /\ run[b] = "live" /\ run' = [run EXCEPT ![b] = "ended"]
    /\ bytes' = [bytes EXCEPT ![b] = "whole"]
    /\ Register(b)
    /\ UNCHANGED <<mover, cleaner, deletion, trouble>>

\* The run is closed as failed: its file was finished, or not.
LoseTraining(b) ==
    /\ Trouble /\ run[b] = "live" /\ run' = [run EXCEPT ![b] = "ended"]
    /\ \E left \in {"torn", "whole"} : bytes' = [bytes EXCEPT ![b] = left]
    /\ UNCHANGED <<artifact, at, mover, cleaner, deletion>>

-----------------------------------------------------------------------------
(* Transfers.                                                              *)

Target(m) == IF mover[m].kind = "put" THEN Box ELSE Hub

MoverAt(m, step) == mover' = [mover EXCEPT ![m].step = step, ![m].temp = "none"]
Abandon(m) == mover' = [mover EXCEPT ![m] = NoMove]

Begin(m, kind, from) ==
    /\ mover[m] = NoMove
    /\ mover' = [mover EXCEPT ![m] = [NoMove EXCEPT !.kind = kind, !.from = from, !.step = "open"]]
    /\ UNCHANGED <<artifact, at, bytes, run, cleaner, deletion, trouble>>

Materialize(m) == Readable(Hub) /\ bytes[Hub] = "whole" /\ Begin(m, "put", Hub)

Retrieve(m) == \E l \in Locations \ {Hub} : Readable(l) /\ Begin(m, "get", l)

Ingest(m) == Begin(m, "ingest", Null)

\* Existing bytes are verified and nothing is written.
AlreadyThere(m) ==
    /\ mover[m].step = "open" /\ bytes[Target(m)] = "whole"
    /\ MoverAt(m, "stored")
    /\ UNCHANGED <<artifact, at, bytes, run, cleaner, deletion, trouble>>

\* Fault: the bytes go to the object's own path as they arrive.
WriteObject(m, content) ==
    /\ mover' = [mover EXCEPT ![m].temp = content]
    /\ bytes' = [bytes EXCEPT ![Target(m)] = content]

WriteTemporary(m, content) == mover' = [mover EXCEPT ![m].temp = content] /\ UNCHANGED bytes

Sound(m) == mover[m].from \in {Null} \cup {l \in Locations : bytes[l] = "whole"}

\* The source is verified when it is opened; an open file survives its deletion.
Open(m) ==
    /\ mover[m].step = "open" /\ bytes[Target(m)] = "none" /\ Sound(m) /\ MoverAt(m, "new")
    /\ UNCHANGED <<artifact, at, bytes, run, cleaner, deletion, trouble>>

Stream(m) ==
    /\ mover[m].step = "new"
    /\ \/ mover[m].temp = "none" /\ WriteTemporary(m, "torn")
       \/ mover[m].temp = "torn" /\ WriteTemporary(m, "whole")
    /\ UNCHANGED <<artifact, at, run, cleaner, deletion, trouble>>

\* The temporary file replaces whatever another transfer put there meanwhile.
Install(m) ==
    /\ mover[m].step = "new" /\ mover[m].temp = "whole"
    /\ bytes' = [bytes EXCEPT ![Target(m)] = "whole"] /\ MoverAt(m, "stored")
    /\ UNCHANGED <<artifact, at, run, cleaner, deletion, trouble>>

\* The source is gone, or the bytes at the target are not the declared ones.
Refuse(m) ==
    /\ mover[m].step = "open"
    /\ \/ bytes[Target(m)] = "torn"
       \/ bytes[Target(m)] = "none" /\ ~Sound(m)
    /\ Abandon(m)
    /\ UNCHANGED <<artifact, at, bytes, run, cleaner, deletion, trouble>>

\* A stream that ends early is refused; an answer may be lost with the object in place.
CutTransfer(m) ==
    /\ Trouble /\ mover[m].step # "idle" /\ Abandon(m)
    /\ UNCHANGED <<artifact, at, bytes, run, cleaner, deletion>>

\* An artifact deleted meanwhile has no row to record the copy under.
RecordTransfer(m) ==
    /\ mover[m].step = "stored"
    /\ \/ mover[m].kind = "ingest" /\ Register(Hub)
       \/ mover[m].kind # "ingest" /\ RecordLocation(Target(m)) /\ UNCHANGED artifact
       \/ mover[m].kind # "ingest" /\ artifact.row # "kept" /\ UNCHANGED <<artifact, at>>
    /\ Abandon(m)
    /\ UNCHANGED <<bytes, run, cleaner, deletion, trouble>>

-----------------------------------------------------------------------------
(* Retention.                                                              *)

LiveRun == \E b \in Builds : run[b] = "live"

CleanerAt(c, step) == cleaner' = [cleaner EXCEPT ![c].step = step]
Rest(c) == cleaner' = [cleaner EXCEPT ![c] = Resting]

\* Whole files hash to the checkpoint; an unfinished one is another artifact.
BuildInventory(c) ==
    /\ cleaner[c] = Resting /\ ~LiveRun /\ artifact.scans < MaxScans
    /\ cleaner' = [cleaner EXCEPT ![c].step = "scanned", ![c].found = {b \in Builds : bytes[b] = "whole"}]
    /\ UNCHANGED <<artifact, at, bytes, run, mover, deletion, trouble>>

ReconcileInventory(c) ==
    /\ cleaner[c].step = "scanned" /\ cleaner[c].found # {} /\ artifact.scans < MaxScans
    /\ LET file == Min(cleaner[c].found) IN
          /\ at' = at \cup {file} /\ cleaner' = [cleaner EXCEPT ![c].found = @ \ {file}]
          /\ artifact' = [artifact EXCEPT !.row = Registered,
                                          !.scans = IF cleaner[c].found = {file} THEN @ + 1 ELSE @]
    /\ UNCHANGED <<bytes, run, mover, deletion, trouble>>

\* The plan's hash covers what is eligible and when it was last observed.
RetentionInventory ==
    [eligible |-> IF artifact.row = "kept" /\ ~artifact.pinned THEN at \cap Builds ELSE {},
     seen |-> artifact.scans]

Preview(c) ==
    /\ cleaner[c].step \in {"idle", "scanned"} /\ cleaner[c].found = {}
    /\ RetentionInventory.eligible # {}
    /\ cleaner' = [cleaner EXCEPT ![c].step = "planned", ![c].plan = RetentionInventory]
    /\ UNCHANGED <<artifact, at, bytes, run, mover, deletion, trouble>>

Apply(c) ==
    /\ cleaner[c].step = "planned"
    /\ IF LiveRun \/ RetentionInventory # cleaner[c].plan THEN Rest(c) ELSE CleanerAt(c, "cleared")
    /\ UNCHANGED <<artifact, at, bytes, run, mover, deletion, trouble>>

Intent(c, b) == {d \in deletion : d.plan = cleaner[c].plan /\ d.at = b}

\* A row the plan already has stays as it is.
AuthorizePlan(c) ==
    LET plan == cleaner[c].plan IN
    /\ cleaner[c].step = "cleared"
    /\ IF RetentionInventory # plan
       THEN Rest(c) /\ UNCHANGED deletion
       ELSE /\ deletion' = deletion \cup {[plan |-> plan, at |-> b, state |-> "authorized"] :
                                            b \in {x \in plan.eligible : Intent(c, x) = {}}}
            /\ cleaner' = [cleaner EXCEPT ![c].step = "deleting", ![c].left = plan.eligible]
    /\ UNCHANGED <<artifact, at, bytes, run, mover, trouble>>

Item(c) == Min(cleaner[c].left)

\* The trainbox verifies the bytes and unlinks the file.
DeleteArtifact(c) ==
    /\ cleaner[c].step = "deleting" /\ cleaner[c].left # {}
    /\ IF bytes[Item(c)] = "whole"
       THEN bytes' = [bytes EXCEPT ![Item(c)] = "none"] /\ CleanerAt(c, "deleted")
       ELSE UNCHANGED bytes /\ CleanerAt(c, "refused")
    /\ UNCHANGED <<artifact, at, run, mover, deletion, trouble>>

LoseDeletionAnswer(c) ==
    /\ Trouble /\ cleaner[c].step = "deleted" /\ CleanerAt(c, "refused")
    /\ UNCHANGED <<artifact, at, bytes, run, mover, deletion>>

Settle(d, state) == deletion' = (deletion \ {d}) \cup {[d EXCEPT !.state = state]}

RecordDeletion(c) ==
    LET file == Item(c) IN
    /\ cleaner[c].step = "deleted"
    /\ \E d \in Intent(c, file) :
          IF artifact.pinned \/ d.state # "authorized" \/ file \notin at
          THEN CleanerAt(c, "refused") /\ UNCHANGED <<artifact, at, deletion>>
          ELSE /\ at' = at \ {file} /\ Settle(d, "deleted")
               /\ artifact' = [artifact EXCEPT !.row = IF at = {file} THEN "deleted" ELSE @]
               /\ cleaner' = [cleaner EXCEPT ![c].step = "deleting", ![c].left = @ \ {file}]
    /\ UNCHANGED <<bytes, run, mover, trouble>>

\* The first failure ends the clean-up; the rest stays unattempted.
FailDeletion(c) ==
    /\ cleaner[c].step = "refused"
    /\ \E d \in Intent(c, Item(c)) :
          IF d.state = "authorized" THEN Settle(d, "failed") ELSE UNCHANGED deletion
    /\ Rest(c)
    /\ UNCHANGED <<artifact, at, bytes, run, mover, trouble>>

FinishCleanup(c) ==
    /\ cleaner[c].step = "deleting" /\ cleaner[c].left = {} /\ Rest(c)
    /\ UNCHANGED <<artifact, at, bytes, run, mover, deletion, trouble>>

\* The process ends between two steps, before or after the request arrived.
CrashCleaner(c) ==
    /\ Trouble /\ cleaner[c].step # "idle" /\ Rest(c)
    /\ UNCHANGED <<artifact, at, bytes, run, mover, deletion>>

-----------------------------------------------------------------------------
Transfer(m) ==
    \/ Materialize(m) \/ Retrieve(m) \/ Ingest(m) \/ AlreadyThere(m) \/ Open(m) \/ Stream(m)
    \/ Install(m) \/ Refuse(m) \/ CutTransfer(m) \/ RecordTransfer(m)

Clean(c) ==
    \/ BuildInventory(c) \/ ReconcileInventory(c) \/ Preview(c) \/ Apply(c) \/ AuthorizePlan(c)
    \/ DeleteArtifact(c) \/ LoseDeletionAnswer(c) \/ RecordDeletion(c) \/ FailDeletion(c)
    \/ FinishCleanup(c) \/ CrashCleaner(c)

Next ==
    \/ Protect \/ Release
    \/ \E b \in Builds : StartTraining(b) \/ FinishTraining(b) \/ LoseTraining(b)
    \/ \E m \in Movers : Transfer(m)
    \/ \E c \in Cleaners : Clean(c)

Spec == Init /\ [][Next]_vars

-----------------------------------------------------------------------------
(* A copy the ledger offers to jobs and transfers holds the whole          *)
(* checkpoint, whatever was cut, repeated or done twice at the same time:  *)
(* only a build file whose deletion was authorized may be missing, and the *)
(* objects of the hub and of the trainbox never are.                       *)
RecordedAreWhole ==
    \A l \in at : bytes[l] = "whole" \/ (bytes[l] = "none" /\ \E d \in deletion : d.at = l)

=============================================================================
