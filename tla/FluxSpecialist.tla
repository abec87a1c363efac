--------------------------- MODULE FluxSpecialist ---------------------------
(***************************************************************************)
(* The specialist that fills the slots the word loop leaves empty: cycles  *)
(* of planning, generating images in two shards on the trainbox, copying   *)
(* them, binding them to slots, reviewing and reconciling.  The controller *)
(* repeats a phase that failed, and resumes the phase it was in.           *)
(***************************************************************************)
EXTENDS Integers, Sequences, FiniteSets

CONSTANTS
    Concept,    \* Concept[s]: what slot s teaches; slots are numbers
    Route,      \* Route[c]: how a concept can be taught
    Cap,        \* uses of one image
    MaxCycles,  \* bound: cycles
    MaxErrors,  \* failures in a row that end the process
    MaxTrouble, \* bound: failed commands, ended processes, lost files
    Null

VARIABLES
    ctl,        \* the controller: its saved state, and whether it is up
    decisions,  \* the authoritative decisions: the image of an accepted slot
    plan,       \* the production briefs of the cycle
    pixels,     \* image files in the cycle's directory of the trainbox
    rows,       \* rows of the cycle's generation ledgers
    unit,       \* the shards: whether one runs, and what it has yet to do
    stage,      \* the review stage of the cycle
    trouble

vars == <<ctl, decisions, plan, pixels, rows, unit, stage, trouble>>

Slots == DOMAIN Concept
Concepts == DOMAIN Route
Shards == {0, 1}
Brief == [ids : (SUBSET Concepts) \ {{}}, count : 1 .. Cardinality(Slots)]
Image == (1 .. Cardinality(Slots)) \X (0 .. Cardinality(Slots) - 1)   \* brief, variant

Planned == {i \in Image : i[1] \in DOMAIN plan /\ i[2] < plan[i[1]].count}
ShardOf(i) == (i[1] - 1) % 2
Covers(i, c) == c \in plan[i[1]].ids
ImagesOf(c) == {i \in Planned : Covers(i, c)}
Precedes(i, j) == i[1] < j[1] \/ (i[1] = j[1] /\ i[2] < j[2])

\* The entries of some things, of which each has as many as counted.
Entries(count, of) == UNION {{x} \X (1 .. count[x]) : x \in of}

NoStage == [at |-> "none", rows |-> Null, pixels |-> Null, judged |-> Null]
Off == [on |-> FALSE, todo |-> {}]

TypeOK ==
    /\ ctl \in [phase : {"wait_review", "plan", "start_generation", "wait_generation", "transfer",
                         "review", "complete", "done"},
                cycle : 0 .. MaxCycles, errors : 0 .. MaxErrors, up : BOOLEAN, module : BOOLEAN]
    /\ decisions \in [Slots -> {Null} \cup ((0 .. MaxCycles) \X Image)]
    /\ plan \in Seq(Brief) /\ pixels \in [Image -> {"none", "torn", "whole"}]
    /\ \A i \in Image : rows[i] \in Nat
    /\ \A g \in Shards : unit[g].on \in BOOLEAN /\ unit[g].todo \subseteq Image
    /\ stage.at \in {"none", "copied", "committed", "ingested", "inspected", "queued", "prepared",
                    "judged"}
    /\ trouble \in 0 .. MaxTrouble

Init ==
    /\ ctl = [phase |-> "wait_review", cycle |-> 0, errors |-> 0, up |-> TRUE, module |-> FALSE]
    /\ decisions = [s \in Slots |-> Null] /\ plan = <<>>
    /\ pixels = [i \in Image |-> "none"] /\ rows = [i \in Image |-> 0]
    /\ unit = [g \in Shards |-> Off] /\ stage = NoStage /\ trouble = 0

-----------------------------------------------------------------------------
(* The controller's loop.                                                  *)

Trouble == trouble < MaxTrouble /\ trouble' = trouble + 1
At(phase) == ctl.up /\ ctl.phase = phase

Phase(next) == ctl' = [ctl EXCEPT !.phase = next, !.errors = 0, !.module = FALSE]

\* The phase is tried again; the last failure in a row ends the process.
Fails ==
    LET errors == IF ctl.errors < MaxErrors THEN ctl.errors + 1 ELSE MaxErrors IN
    ctl' = [ctl EXCEPT !.errors = errors, !.up = errors < MaxErrors, !.module = FALSE]

CommandFails ==
    /\ Trouble /\ ctl.up /\ ctl.phase \notin {"wait_review", "done"} /\ Fails
    /\ UNCHANGED <<decisions, plan, pixels, rows, unit, stage>>

Crash ==
    /\ Trouble /\ ctl.up /\ ctl.phase # "done"
    /\ ctl' = [ctl EXCEPT !.up = FALSE, !.module = FALSE]
    /\ UNCHANGED <<decisions, plan, pixels, rows, unit, stage>>

Restart ==
    /\ ~ctl.up /\ ctl' = [ctl EXCEPT !.up = TRUE]
    /\ UNCHANGED <<decisions, plan, pixels, rows, unit, stage, trouble>>

WaitReview ==
    /\ At("wait_review")
    /\ ctl' = [ctl EXCEPT !.phase = "plan", !.cycle = 1]
    /\ UNCHANGED <<decisions, plan, pixels, rows, unit, stage, trouble>>

-----------------------------------------------------------------------------
(* Planning.                                                               *)

Missing == {s \in Slots : decisions[s] = Null}
Still == {"single_image", "single_image_empirically_demonstrated"}
Residual == {s \in Missing : Route[Concept[s]] \in Still}

Assigned(briefs, c) ==
    Entries([b \in DOMAIN briefs |-> briefs[b].count], {b \in DOMAIN briefs : c \in briefs[b].ids})

\* Splits of a draft by the auditor or the composer keep every claim.
Plans ==
    LET Wanted(c) == Cardinality({s \in Residual : Concept[s] = c})
        Briefs == UNION {[1 .. n -> Brief] : n \in 1 .. Cardinality(Residual)} IN
    {p \in Briefs : /\ \A b \in DOMAIN p : Cardinality(p[b].ids) <= Cap
                    /\ \A c \in Concepts : Cardinality(Assigned(p, c)) = Wanted(c)}

Plan ==
    /\ At("plan") /\ Residual # {} /\ ctl.cycle <= MaxCycles
    /\ plan' \in Plans
    /\ pixels' = [i \in Image |-> "none"] /\ rows' = [i \in Image |-> 0]
    /\ unit' = [g \in Shards |-> Off] /\ stage' = NoStage
    /\ Phase("start_generation")
    /\ UNCHANGED <<decisions, trouble>>

NothingToPlan ==
    /\ At("plan") /\ Residual = {} /\ Phase("complete")
    /\ UNCHANGED <<decisions, plan, pixels, rows, unit, stage, trouble>>

-----------------------------------------------------------------------------
(* Generation.                                                             *)

Written == Cardinality(Entries(rows, Image))
Expected == Cardinality(Planned)

\* What a shard still has to do when it starts.
Todo(g) == {i \in Planned : ShardOf(i) = g /\ (rows[i] = 0 \/ pixels[i] = "none")}

ToStart == IF Written = Expected THEN {} ELSE {g \in Shards : ~unit[g].on}

Started(some) ==
    unit' = [g \in Shards |-> IF g \in some THEN [on |-> TRUE, todo |-> Todo(g)] ELSE unit[g]]

StartGeneration ==
    /\ At("start_generation")
    /\ \/ Started(ToStart) /\ Phase("wait_generation") /\ UNCHANGED trouble
       \/ Trouble /\ Fails /\ \E some \in SUBSET ToStart : Started(some)
    /\ UNCHANGED <<decisions, plan, pixels, rows, stage>>

\* The images of a shard are made in order, each edit from its brief's first.
NextImage(g) == CHOOSE i \in unit[g].todo : \A j \in unit[g].todo \ {i} : Precedes(i, j)

SaveImage(g) ==
    /\ unit[g].on /\ unit[g].todo # {}
    /\ LET i == NextImage(g) IN
          IF i[2] > 0 /\ pixels[<<i[1], 0>>] = "none"
          THEN unit' = [unit EXCEPT ![g] = Off] /\ UNCHANGED pixels
          ELSE pixels[i] # "torn" /\ pixels' = [pixels EXCEPT ![i] = "torn"] /\ UNCHANGED unit
    /\ UNCHANGED <<ctl, decisions, plan, rows, stage, trouble>>

AppendRow(g) ==
    /\ unit[g].on /\ unit[g].todo # {}
    /\ LET i == NextImage(g) IN
          /\ pixels[i] = "torn" /\ pixels' = [pixels EXCEPT ![i] = "whole"]
          /\ rows' = [rows EXCEPT ![i] = @ + 1]
          /\ unit' = [unit EXCEPT ![g].todo = @ \ {i}]
    /\ UNCHANGED <<ctl, decisions, plan, stage, trouble>>

ShardDone(g) ==
    /\ unit[g].on /\ unit[g].todo = {} /\ unit' = [unit EXCEPT ![g] = Off]
    /\ UNCHANGED <<ctl, decisions, plan, pixels, rows, stage, trouble>>

KillShard(g) ==
    /\ Trouble /\ unit[g].on /\ unit' = [unit EXCEPT ![g] = Off]
    /\ UNCHANGED <<ctl, decisions, plan, pixels, rows, stage>>

LosePixels(i) ==
    /\ Trouble /\ pixels[i] # "none" /\ pixels' = [pixels EXCEPT ![i] = "none"]
    /\ UNCHANGED <<ctl, decisions, plan, rows, unit, stage>>

\* Only the number of rows is compared; shards that ended short are an error.
WaitGeneration ==
    /\ At("wait_generation")
    /\ \/ Written = Expected /\ Phase("transfer")
       \/ Written # Expected /\ (\A g \in Shards : ~unit[g].on) /\ Fails
    /\ UNCHANGED <<decisions, plan, pixels, rows, unit, stage, trouble>>

Transfer ==
    /\ At("transfer") /\ Phase("review")
    /\ stage' = [NoStage EXCEPT !.at = "copied", !.rows = rows, !.pixels = pixels]
    /\ UNCHANGED <<decisions, plan, pixels, rows, unit, trouble>>

-----------------------------------------------------------------------------
(* The review stage.                                                       *)

MissingOf(c) == {s \in Missing : Concept[s] = c}
Occurrences(c) == Cardinality(Entries(stage.rows, ImagesOf(c)))

\* Fault: duplicate identities are not refused.
AnyNumber == TRUE

EachOnce == \A i \in Image : stage.rows[i] <= 1

PixelsThere == \A i \in Planned : stage.rows[i] > 0 => stage.pixels[i] = "whole"

\* The concepts generated are those routed to a single image, all their empty slots covered.
ExactlyTheNeeds ==
    LET made == UNION {plan[b].ids : b \in DOMAIN plan} IN
    /\ made = {c \in Concepts : MissingOf(c) # {} /\ Route[c] = "single_image"}
    /\ \A c \in made : Occurrences(c) = Cardinality(MissingOf(c))

\* The rows of a concept and its empty slots are paired in order.
BoundTo(s) ==
    LET nth == Cardinality({t \in MissingOf(Concept[s]) : t <= s})
        before(i) == {j \in ImagesOf(Concept[s]) : Precedes(j, i)} IN
    CHOOSE i \in ImagesOf(Concept[s]) :
        /\ Cardinality(Entries(stage.rows, before(i))) < nth
        /\ nth <= Cardinality(Entries(stage.rows, before(i) \cup {i}))

\* One transaction admits the images and their selection.
Ingest ==
    /\ At("review") /\ stage.at = "copied"
    /\ IF EachOnce /\ ExactlyTheNeeds /\ PixelsThere
       THEN /\ stage' = [stage EXCEPT !.at = "committed"]
            /\ ctl' = [ctl EXCEPT !.module = TRUE]
       ELSE Fails /\ UNCHANGED stage
    /\ UNCHANGED <<decisions, plan, pixels, rows, unit, trouble>>

\* An ingest cut before its summary is refused by its own selection ever after.
WriteProposals ==
    /\ At("review") /\ stage.at = "committed"
    /\ IF ctl.module
       THEN stage' = [stage EXCEPT !.at = "ingested"] /\ UNCHANGED ctl
       ELSE Fails /\ UNCHANGED stage
    /\ UNCHANGED <<decisions, plan, pixels, rows, unit, trouble>>

\* One image the inspection refuses stops the stage.
Inspect ==
    /\ At("review") /\ stage.at = "ingested"
    /\ \/ stage' = [stage EXCEPT !.at = "inspected"] /\ UNCHANGED ctl
       \/ Fails /\ UNCHANGED stage
    /\ UNCHANGED <<decisions, plan, pixels, rows, unit, trouble>>

\* The queue and its bindings exist before the summary the stage reads.
Prepare ==
    /\ At("review") /\ stage.at = "inspected"
    /\ stage' = [stage EXCEPT !.at = "queued"] /\ ctl' = [ctl EXCEPT !.module = TRUE]
    /\ UNCHANGED <<decisions, plan, pixels, rows, unit, trouble>>

WritePreparation ==
    /\ At("review") /\ stage.at = "queued"
    /\ IF ctl.module
       THEN stage' = [stage EXCEPT !.at = "prepared"] /\ UNCHANGED ctl
       ELSE Fails /\ UNCHANGED stage
    /\ UNCHANGED <<decisions, plan, pixels, rows, unit, trouble>>

\* Reviews accept some of the bindings; slots without a candidate keep their decision.
Judge ==
    /\ At("review") /\ stage.at = "prepared"
    /\ \E accepted \in SUBSET Residual :
          stage' = [stage EXCEPT !.at = "judged",
                      !.judged = [s \in Slots |-> IF s \in accepted THEN <<ctl.cycle, BoundTo(s)>>
                                                                    ELSE decisions[s]]]
    /\ UNCHANGED <<ctl, decisions, plan, pixels, rows, unit, trouble>>

Uses(ledger, i) == {s \in Slots : ledger[s] = i}

\* Uses of an image over the cap are demoted.
WithinCap(ledger, capped) ==
    \A s \in Slots :
        /\ capped[s] \in {ledger[s], Null}
        /\ capped[s] = Null /\ ledger[s] # Null => Cardinality(Uses(ledger, ledger[s])) > Cap
        /\ capped[s] # Null => Cardinality(Uses(capped, capped[s])) <= Cap

Review ==
    /\ At("review") /\ stage.at = "judged" /\ ctl.cycle < MaxCycles
    /\ decisions' \in [Slots -> {Null} \cup {stage.judged[s] : s \in Slots}]
    /\ WithinCap(stage.judged, decisions')
    /\ ctl' = [ctl EXCEPT !.phase = "plan", !.cycle = @ + 1, !.errors = 0, !.module = FALSE]
    /\ UNCHANGED <<plan, pixels, rows, unit, stage, trouble>>

\* The auditor wants an image or another representation for every slot.
Complete ==
    /\ At("complete")
    /\ IF \A s \in Missing : Route[Concept[s]] = "other_representation"
       THEN Phase("done") ELSE Fails
    /\ UNCHANGED <<decisions, plan, pixels, rows, unit, stage, trouble>>

-----------------------------------------------------------------------------
Next ==
    \/ CommandFails \/ Crash \/ Restart \/ WaitReview \/ Plan \/ NothingToPlan
    \/ StartGeneration \/ WaitGeneration \/ Transfer
    \/ \E g \in Shards : SaveImage(g) \/ AppendRow(g) \/ ShardDone(g) \/ KillShard(g)
    \/ \E i \in Planned : LosePixels(i)
    \/ Ingest \/ WriteProposals \/ Inspect \/ Prepare \/ WritePreparation \/ Judge \/ Review \/ Complete

Spec == Init /\ [][Next]_vars

-----------------------------------------------------------------------------
(* The accepted slots of a concept hold different images, over all cycles, *)
(* and no image serves more slots than the cap: whatever shard or          *)
(* controller ended, and although an image whose file was lost is made and *)
(* recorded twice.                                                         *)
DistinctPositives ==
    \A s, t \in Slots :
        decisions[s] # Null /\ s # t /\ decisions[s] = decisions[t] =>
            /\ Concept[s] # Concept[t]
            /\ Cardinality(Uses(decisions, decisions[s])) <= Cap

=============================================================================
