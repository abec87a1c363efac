----------------------------- MODULE MCWorkflows -----------------------------
(* One of several independent components in each behaviour: `part` says    *)
(* which, and the slots v1, v2, ... hold its variables.                    *)
EXTENDS Naturals, FiniteSets, Sequences, TLC

CONSTANTS Null, original, repaired, a, b

VARIABLES part, v1, v2, v3, v4, v5, v6, v7, v8, w1, w2, w3, w4, w5

\* Slots of the larger components only.
extra == <<w1, w2, w3, w4, w5>>
vars == <<part, v1, v2, v3, v4, v5, v6, v7, v8, extra>>

-----------------------------------------------------------------------------
(* A Cortex branch of three sessions: one caller with an original and a    *)
(* repaired session list, or two callers with the same one.                *)
Branch(materials, clients) == INSTANCE CortexBranch WITH
    N <- 3, Materials <- materials, Clients <- clients, MaxWorkflows <- 3, MaxTrouble <- 1,
    Prefixes <- {[last |-> 2, chosen |-> {2}], [last |-> 3, chosen |-> {}],
                 [last |-> 2, chosen |-> {1, 2}]},
    workflows <- v1, job <- v2, touched <- v3, bound <- v4, retired <- v5, asked <- v6,
    desired <- v7, trouble <- v8

Repairs == {original, repaired}
Callers == {"api", "cli"}

-----------------------------------------------------------------------------
(* A lesson plan under the visual coordinator.                             *)
Visual(p) == INSTANCE VisualWorkflow WITH
    Items <- p.items, Seeds <- p.seeds, Cohort <- p.cohort, Captions <- p.cohort,
    Exact <- p.exact, PackLimit <- p.pack, Budget <- p.budget, Shadow <- p.shadow,
    Coordinators <- p.by, MaxWorkflows <- p.rows, MaxFailures <- p.trouble,
    flow <- v1, job <- v2, linked <- v3, usable <- v4, incident <- v5, block <- v6,
    hub <- v7, failures <- v8

Daemon == {"daemon"}
OneEach == [items |-> 2, seeds |-> 1, cohort |-> 1, exact |-> TRUE, pack |-> 2, budget |-> 2,
            shadow |-> FALSE, by |-> Daemon, rows |-> 1, trouble |-> 1]

Lesson ==
    ("contended plan" :>
        [OneEach EXCEPT !.items = 1, !.seeds = 2, !.pack = 1, !.by = {"daemon", "cli"},
                        !.rows = 2, !.trouble = 0]) @@
    ("plan of two cohorts" :>
        [OneEach EXCEPT !.items = 1, !.seeds = 4, !.cohort = 2, !.pack = 1, !.budget = 4,
                        !.rows = 2]) @@
    ("plan with successors" :> [OneEach EXCEPT !.rows = 2]) @@
    ("plan of a choice" :> [OneEach EXCEPT !.items = 3, !.exact = FALSE]) @@
    ("plan in shadow" :> [OneEach EXCEPT !.shadow = TRUE])

-----------------------------------------------------------------------------
(* The word-image loop with some of its review queues.                     *)
Words(p) == INSTANCE WordLoop WITH
    Cand <- p.cand, Cascade <- p.cascade, Slots <- Cardinality(p.cand), YieldStart <- 2,
    MaxTries <- 1, MaxErrors <- 2, MaxTrouble <- p.trouble,
    state <- v1, queue <- v2, tries <- v3, worker <- v4, proc <- v5, image <- v6,
    history <- v7, trouble <- v8

Loop ==
    ("loop of word reviews" :> [cand |-> {a}, cascade |-> {"word_fit", "sol"}, trouble |-> 1]) @@
    ("loop of image reviews" :> [cand |-> {a}, cascade |-> {"watermark", "usability"}, trouble |-> 0]) @@
    ("loop of a troubled review" :> [cand |-> {a}, cascade |-> {"usability"}, trouble |-> 1]) @@
    ("loop of two slots" :> [cand |-> {a, b}, cascade |-> {}, trouble |-> 0])

-----------------------------------------------------------------------------
(* Two attempts of a GPU job, beside the vision API.                       *)
Remote == INSTANCE RemoteRun WITH
    MaxRuns <- 2, MaxTrouble <- 2, run <- v1, lane <- v2, wire <- v3, agent <- v4, child <- v5,
    lock <- v6, vision <- v7, trouble <- v8

-----------------------------------------------------------------------------
(* The builds of Campaign 35: with two troubles when only the scripts have *)
(* images, and without when workflows encoded images too.                  *)
FiveBuilds(most) == INSTANCE FiveBuild WITH
    MaxTrouble <- most, record <- v1, flow <- v2, job <- v3, visual <- v4, held <- v5, pipe <- v6,
    step <- v7, trouble <- v8

-----------------------------------------------------------------------------
(* A campaign of two merged branches and one that trains on the merge.     *)
Lessons ==
    ("a" :> [branch |-> "m1", parent |-> "root", order |-> <<[concept |-> "a", needs |-> {}]>>]) @@
    ("b" :> [branch |-> "m2", parent |-> "root", order |-> <<[concept |-> "b", needs |-> {}]>>]) @@
    ("d" :> [branch |-> "m5", parent |-> "merged",
             order |-> <<[concept |-> "c", needs |-> {"a", "b"}], [concept |-> "d", needs |-> {"c"}]>>]) @@
    ("e" :> [branch |-> "m5", parent |-> "d", order |-> <<[concept |-> "e", needs |-> {"d", "a"}]>>])

Teaching == INSTANCE TeachingLedger WITH
    Sessions <- DOMAIN Lessons, Lesson <- Lessons, Final <- [m1 |-> "a", m2 |-> "b", m5 |-> "e"],
    Sources <- {"a", "b"}, Seeded <- {"a"}, MaxTrouble <- 1,
    campaign <- v1, branch <- v2, knows <- v3, certificate <- v4, plan <- v5, pipe <- v6, trouble <- v7

-----------------------------------------------------------------------------
(* The copies of a checkpoint.                                             *)
Copies(p) == INSTANCE ArtifactStore WITH
    Builds <- p.builds, Movers <- p.movers, Cleaners <- p.cleaners, MaxTrouble <- 1, MaxScans <- 1,
    artifact <- v1, at <- v2, bytes <- v3, run <- v4, mover <- v5, cleaner <- v6, deletion <- v7,
    trouble <- v8

Store ==
    ("two transfers" :> [builds |-> {1}, movers |-> {1, 2}, cleaners |-> {"cli"}]) @@
    ("two builds" :> [builds |-> {1, 2}, movers |-> {1}, cleaners |-> {"cli"}]) @@
    ("two clean-ups" :> [builds |-> {1}, movers |-> {1}, cleaners |-> {"daemon", "cli"}]) @@
    ("two clean-ups of two builds" :>
        [builds |-> {1, 2}, movers |-> {}, cleaners |-> {"daemon", "cli"}])

-----------------------------------------------------------------------------
(* The specialist: slots of two concepts, two full cycles of one concept,  *)
(* and concepts of other routes.                                           *)
Flux(p) == INSTANCE FluxSpecialist WITH
    Concept <- p.concept, Route <- p.route, Cap <- 2, MaxCycles <- p.cycles, MaxErrors <- p.errors,
    MaxTrouble <- 2,
    ctl <- v1, decisions <- v2, plan <- v3, pixels <- v4, rows <- v5, unit <- v6, stage <- v7,
    trouble <- v8

Single == [x |-> "single_image", y |-> "single_image"]

Specialist ==
    ("specialist of two concepts" :>
        [concept |-> <<"x", "x", "y">>, route |-> Single, cycles |-> 2, errors |-> 1]) @@
    ("specialist of two cycles" :>
        [concept |-> <<"x", "x">>, route |-> Single, cycles |-> 3, errors |-> 2]) @@
    ("specialist of three routes" :>
        [concept |-> <<"x", "y", "z">>, cycles |-> 2, errors |-> 1,
         route |-> [x |-> "single_image", y |-> "single_image_empirically_demonstrated",
                    z |-> "other_representation"]])

-----------------------------------------------------------------------------
(* Two sources: of one configuration, of two, and of a configuration that  *)
(* is not committed.                                                       *)
Release(p) == INSTANCE Releases WITH
    Sources <- {a, b}, Dirty <- p.dirty, Config <- p.config, MaxChanges <- p.changes,
    config <- v1, retired <- v2, status <- v3, order <- v4, pipeline <- v5, tree <- v6,
    operator <- v7, driver <- v8, release <- w1, link <- w2, run <- w3, agent <- w4, changes <- w5

Tree ==
    ("releases of a repair" :> [dirty |-> {}, config |-> (a :> "c1" @@ b :> "c1"), changes |-> 3]) @@
    ("releases of two configurations" :>
        [dirty |-> {}, config |-> (a :> "c1" @@ b :> "c2"), changes |-> 2]) @@
    ("releases of a dirty tree" :>
        [dirty |-> {b}, config |-> (a :> "c1" @@ b :> "c2"), changes |-> 3])

-----------------------------------------------------------------------------
(* Settings of a model with two configurations, and one job.               *)
Limit(context, output) == "context" :> context @@ "output" :> output

Settings == INSTANCE LabSettings WITH
    Default <- <<Limit(4, 1), Limit(2, 1)>>, Entered <- {Limit(5, 3)}, Jobs <- {a},
    MaxRuns <- 2, MaxChanges <- 3,
    config <- v1, api <- v2, latest <- v3, active <- v4, pending <- v5, job <- v6, runs <- v7,
    pipeline <- v8, form <- w1, reader <- w2, changes <- w3

-----------------------------------------------------------------------------
(* Two items of a curriculum: one image of the registry, one of COCO, and  *)
(* two searches.                                                           *)
Acquisition == INSTANCE LessonAcquisition WITH
    Items <- {1, 2}, Assets <- {a, b}, Registered <- {a}, Coco <- {b}, MaxLists <- 2, MaxPasses <- 2,
    status <- v1, decision <- v2, shortlist <- v3, proposal <- v4, passes <- v5, ledger <- v6,
    asked <- v7, lists <- v8

-----------------------------------------------------------------------------
InitOfEight ==
    \/ part = "acquisition" /\ Acquisition!Init
    \/ \E p \in DOMAIN Specialist : part = p /\ Flux(Specialist[p])!Init
    \/ \E p \in DOMAIN Store : part = p /\ Copies(Store[p])!Init
    \/ part = "teaching" /\ v8 = Null /\ Teaching!Init
    \/ part = "five builds" /\ FiveBuilds(0)!Init /\ v4 # "none"
    \/ part = "troubled builds" /\ FiveBuilds(2)!Init /\ v4 = "none"
    \/ part = "remote runs" /\ Remote!Init
    \/ \E p \in DOMAIN Loop : part = p /\ Words(Loop[p])!Init
    \/ part = "repaired branch" /\ Branch(Repairs, {"cli"})!Init
    \/ part = "contended branch" /\ Branch({original}, Callers)!Init
    \/ \E p \in DOMAIN Lesson : part = p /\ Visual(Lesson[p])!Init

Init ==
    \/ \E p \in DOMAIN Tree : part = p /\ Release(Tree[p])!Init
    \/ part = "settings" /\ w4 = Null /\ w5 = Null /\ Settings!Init
    \/ /\ w1 = Null /\ w2 = Null /\ w3 = Null /\ w4 = Null /\ w5 = Null
       /\ InitOfEight

NextOfEight ==
    /\ UNCHANGED extra
    /\ \/ part = "remote runs" /\ Remote!Next
       \/ part = "five builds" /\ FiveBuilds(0)!Next
       \/ part = "troubled builds" /\ FiveBuilds(2)!Next
       \/ part = "teaching" /\ UNCHANGED v8 /\ Teaching!Next
       \/ part = "repaired branch" /\ Branch(Repairs, {"cli"})!Next
       \/ part = "contended branch" /\ Branch({original}, Callers)!Next
       \/ \E p \in DOMAIN Lesson : part = p /\ Visual(Lesson[p])!Next
       \/ \E p \in DOMAIN Loop : part = p /\ Words(Loop[p])!Next
       \/ \E p \in DOMAIN Store : part = p /\ Copies(Store[p])!Next
       \/ \E p \in DOMAIN Specialist : part = p /\ Flux(Specialist[p])!Next
       \/ part = "acquisition" /\ Acquisition!Next

Next ==
    /\ UNCHANGED part
    /\ \/ NextOfEight
       \/ \E p \in DOMAIN Tree : part = p /\ Release(Tree[p])!Next
       \/ part = "settings" /\ UNCHANGED <<w4, w5>> /\ Settings!Next

Spec == Init /\ [][Next]_vars

TrainedInOrder ==
    part \in {"repaired branch", "contended branch"} => Branch(Repairs, Callers)!TrainedInOrder
SkippedOnlyForRetired ==
    part \in {"repaired branch", "contended branch"} => Branch(Repairs, Callers)!SkippedOnlyForRetired

CandidateFirst == \A p \in DOMAIN Lesson : part = p => Visual(Lesson[p])!CandidateFirst
PackIsFirstUsable == \A p \in DOMAIN Lesson : part = p => Visual(Lesson[p])!PackIsFirstUsable

ExhaustedAfterTwo == \A p \in DOMAIN Loop : part = p => Words(Loop[p])!ExhaustedAfterTwo
AcceptedAreUsable == \A p \in DOMAIN Loop : part = p => Words(Loop[p])!AcceptedAreUsable

OneGpuWorkload == part = "remote runs" => Remote!OneGpuWorkload

HealsTheEvaluatedMerge ==
    part \in {"five builds", "troubled builds"} => FiveBuilds(2)!HealsTheEvaluatedMerge

TaughtOnWhatIsKnown == part = "teaching" => Teaching!TaughtOnWhatIsKnown

RecordedAreWhole == \A p \in DOMAIN Store : part = p => Copies(Store[p])!RecordedAreWhole

DistinctPositives == \A p \in DOMAIN Specialist : part = p => Flux(Specialist[p])!DistinctPositives

RunsAttestedSource == \A p \in DOMAIN Tree : part = p => Release(Tree[p])!RunsAttestedSource

TokensLeasable == part = "settings" => Settings!TokensLeasable

SelectionsDistinct == part = "acquisition" => Acquisition!SelectionsDistinct

EscalatedFirst == \A p \in DOMAIN Loop : part = p => Words(Loop[p])!EscalatedFirst
=============================================================================
