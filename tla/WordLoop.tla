------------------------------ MODULE WordLoop ------------------------------
(***************************************************************************)
(* The loop that acquires the word images of Campaign 35.  A controller,   *)
(* restarted when it fails, takes a round through its phases: candidates   *)
(* are found in the registry or outside it, reviewed through a cascade of  *)
(* queues by workers it spawns, and folded into the accepted slots.        *)
(* state.json is replaced at the end of each phase, and a phase that was   *)
(* interrupted is run again.                                               *)
(***************************************************************************)
EXTENDS Naturals, Sequences, FiniteSets, SequencesExt

CONSTANTS
    Cand,        \* candidates of a round, each for a slot of its own
    Cascade,     \* the queues of second reviews that are looked at, of the four there are
    Slots,       \* slots without an image at the start
    YieldStart,  \* first round in which a low yield ends the loop
    MaxTries, MaxErrors,
    MaxTrouble,  \* bound: commands that fail, workers that die, crashes
    Null

VARIABLES
    state,    \* state.json
    queue,    \* queue[q][c]: what queue q of the round says of c, {} when c is not in it
    tries,    \* failed reviews
    worker,   \* the workers of each queue
    proc,     \* the controller process
    image,    \* image[c]: the file of a candidate and its decision in the registry
    history,  \* rounds that were folded in
    trouble

vars == <<state, queue, tries, worker, proc, image, history, trouble>>

Terminal == {"complete", "exhausted", "blocked"}

\* A first review tells the fit of the word and raises alarms; each has a queue that settles it.
Queue == {"semantic"} \cup Cascade
Source(q) == IF q = "sol" THEN "word_fit" ELSE "semantic"
Alarm == [watermark |-> "overlay?", usability |-> "unusable?", word_fit |-> "word?", sol |-> "uncertain"]
Result ==
    [semantic |-> {{fit} \cup alarms :
                     fit \in {"fit", "misfit"} \cup ({"word?"} \cap {Alarm[q] : q \in Cascade}),
                     alarms \in SUBSET {Alarm[q] : q \in Cascade \ {"word_fit", "sol"}}},
     watermark |-> {{"in_scene"}, {"overlay"}, {"uncertain"}},
     usability |-> {{"usable"}, {"unusable"}, {"uncertain"}},
     word_fit  |-> {{"accept"}, {"reject"}, {"uncertain"}},
     sol       |-> {{"accept"}, {"reject"}}]

\* The order in which the statuses are read: queue_names', or that of the saved file.
AsNamed == SelectSeq(<<"semantic", "watermark", "usability", "word_fit", "sol">>, LAMBDA q : q \in Queue)
AsSaved == SelectSeq(<<"semantic", "sol", "usability", "watermark", "word_fit">>, LAMBDA q : q \in Queue)

In(q, statuses) == {c \in Cand : queue[q][c] \cap statuses # {}}
Unfinished(q) == In(q, {"pending"}) # {}
FailedReviews(q) == In(q, {"retryable", "fatal"})
Unsynced(q) == {c \in Cand : Alarm[q] \in queue[Source(q)][c] /\ queue[q][c] = {}}

Synced(queues) ==
    [q \in Queue |-> [c \in Cand |-> IF q \in queues /\ c \in Unsynced(q) THEN {"pending"}
                                     ELSE queue[q][c]]]

Down == [pc |-> "down", named |-> FALSE, seen |-> <<>>, taken |-> {}, counts |-> <<0, 0>>]
Idle == [Down EXCEPT !.pc = "idle"]
NoQueue == [q \in Queue |-> [c \in Cand |-> {}]]
NoTries == [q \in Queue |-> [c \in Cand |-> 0]]
NoWorker == [q \in Queue |-> "none"]
Spawned == [q \in Queue |-> "busy"]
InStore == [c \in Cand |-> "stored"]

Init ==
    /\ state = [phase |-> "local_discover", round |-> 1, mode |-> Null, residual |-> Slots,
                noProgress |-> 0, low |-> FALSE, reason |-> "none", errors |-> 0]
    /\ queue = NoQueue /\ tries = NoTries /\ worker = NoWorker /\ image = InStore
    /\ proc = Idle /\ history = <<>> /\ trouble = 0

-----------------------------------------------------------------------------
(* Phases.                                                                 *)

At(phase, pc) == proc.pc = pc /\ state.phase = phase

\* set_phase forgets the errors of the phase it leaves.
Phase(phase) == [state EXCEPT !.phase = phase, !.errors = 0]
Stop(phase, reason) == [state EXCEPT !.phase = phase, !.reason = reason]

LocalDiscover ==
    /\ At("local_discover", "idle")
    /\ \/ state' = [Phase("prepare_review") EXCEPT !.mode = "local"]
       \/ state' = [Phase("external_discover") EXCEPT !.mode = "external"]
    /\ UNCHANGED <<queue, tries, worker, proc, image, history, trouble>>

ExternalDiscover ==
    /\ At("external_discover", "idle")
    /\ \/ state' = Stop("exhausted", "yield")      \* every concept has crossed the floor
       \/ state' = Stop("exhausted", "candidates") \* the sources have no new candidate
       \/ /\ ~(state.round >= YieldStart /\ state.low)
          /\ state' = [Phase("external_download") EXCEPT !.mode = "external"]
    /\ UNCHANGED <<queue, tries, worker, proc, image, history, trouble>>

ExternalDownload ==
    /\ At("external_download", "idle")
    /\ state' = Phase("prepare_review")
    /\ UNCHANGED <<queue, tries, worker, proc, image, history, trouble>>

\* The queue is initialized once; the phase may be interrupted after it.
PrepareReview ==
    /\ At("prepare_review", "idle")
    /\ IF queue # NoQueue THEN UNCHANGED queue
       ELSE \E C \in (SUBSET Cand) \ {{}} :
               /\ Cardinality(C) <= state.residual
               /\ queue' = [queue EXCEPT !["semantic"] =
                               [c \in Cand |-> IF c \in C THEN {"pending"} ELSE {}]]
    /\ proc' = [proc EXCEPT !.pc = "prepared"]
    /\ UNCHANGED <<state, tries, worker, image, history, trouble>>

Prepared ==
    /\ At("prepare_review", "prepared")
    /\ state' = Phase("review_wait")
    /\ proc' = [Idle EXCEPT !.named = TRUE]
    /\ UNCHANGED <<queue, tries, worker, image, history, trouble>>

-----------------------------------------------------------------------------
(* The controller waits for the reviews.                                   *)

ReviewStart ==
    /\ At("review_wait", "idle")
    /\ worker' = Spawned
    /\ proc' = [proc EXCEPT !.pc = "sync"]
    /\ UNCHANGED <<state, queue, tries, image, history, trouble>>

SyncCascades ==
    /\ At("review_wait", "sync")
    /\ queue' = Synced(Cascade)
    /\ proc' = [proc EXCEPT !.pc = "read", !.seen = <<>>]
    /\ UNCHANGED <<state, tries, worker, image, history, trouble>>

ReadStatus ==
    /\ At("review_wait", "read")
    /\ LET order == IF proc.named THEN AsNamed ELSE AsSaved
           q     == order[Len(proc.seen) + 1]
           seen  == Append(proc.seen, [q |-> q, open |-> Unfinished(q),
                                       failed |-> FailedReviews(q) # {}])
       IN proc' = [proc EXCEPT !.seen = seen,
                               !.pc = IF Len(seen) = Len(order) THEN "judge" ELSE "read"]
    /\ UNCHANGED <<state, queue, tries, worker, image, history, trouble>>

Seen(q) == CHOOSE s \in Range(proc.seen) : s.q = q

Settled(q) == ~Seen(q).open /\ ~Seen(q).failed

\* requeue_failures looks at the queues that had failures, as they are now.
JudgeFatal ==
    /\ At("review_wait", "judge")
    /\ \E q \in Queue : Seen(q).failed /\ In(q, {"fatal"}) # {}
    /\ state' = Stop("blocked", "review")
    /\ proc' = Idle
    /\ UNCHANGED <<queue, tries, worker, image, history, trouble>>

Requeued ==
    [q \in Queue |-> [c \in Cand |->
        IF ~(Seen(q).failed /\ queue[q][c] = {"retryable"}) THEN queue[q][c]
        ELSE IF tries[q][c] >= MaxTries THEN {"unreviewable"} ELSE {"pending"}]]

Judge ==
    /\ At("review_wait", "judge")
    /\ ~\E q \in Queue : Seen(q).failed /\ In(q, {"fatal"}) # {}
    /\ queue' = Requeued
    /\ LET again == \E q \in Queue, c \in Cand : queue[q][c] # Requeued[q][c] /\ Requeued[q][c] = {"pending"}
           alive == again \/ \E q \in Queue : worker[q] # "none"
       IN IF \A q \in Queue : Settled(q)
          THEN /\ state' = Phase("round_finalize")
               /\ proc' = [proc EXCEPT !.pc = "idle"]
               /\ UNCHANGED worker
          ELSE /\ UNCHANGED state
               /\ proc' = [proc EXCEPT !.pc = "sync"]
               /\ \/ again /\ worker' = Spawned
                  \/ ~again /\ Seen("semantic").open /\ worker' = Spawned  \* none alive, or stagnant
                  \/ ~again /\ (~Seen("semantic").open \/ alive) /\ UNCHANGED worker
    /\ UNCHANGED <<tries, image, history, trouble>>

-----------------------------------------------------------------------------
(* The workers.                                                            *)

Review(q) ==
    /\ worker[q] # "none"
    /\ \E c \in In(q, {"pending"}), r \in Result[q] : queue' = [queue EXCEPT ![q][c] = r]
    /\ UNCHANGED <<state, tries, worker, proc, image, history, trouble>>

\* A worker of the first queue gives a review up after all its attempts.
ReviewFails(q) ==
    /\ worker[q] # "none"
    /\ trouble < MaxTrouble /\ trouble' = trouble + 1
    /\ \E c \in In(q, {"pending"}), status \in {"retryable", "fatal"} :
          /\ queue' = [queue EXCEPT ![q][c] = {status}]
          /\ tries' = [tries EXCEPT ![q][c] = IF q = "semantic" THEN MaxTries ELSE @ + 1]
    /\ UNCHANGED <<state, worker, proc, image, history>>

\* With nothing to claim, a worker syncs its queue; with nothing to sync it looks at its sources.
WorkerSyncs(q) ==
    /\ q \in Cascade /\ worker[q] = "busy" /\ ~Unfinished(q)
    /\ queue' = Synced(Cascade \cap (IF q = "usability" THEN {q, "watermark"} ELSE {q}))
    /\ worker' = [worker EXCEPT ![q] = IF Unsynced(q) = {} THEN "synced" ELSE "busy"]
    /\ UNCHANGED <<state, tries, proc, image, history, trouble>>

Awaited(q) ==
    CASE q = "semantic" -> {q}
      [] q = "usability" -> {q, "semantic", "watermark"}
      [] q = "sol" -> {q, "semantic", "word_fit"}
      [] OTHER -> {q, "semantic"}

WorkerRests(q) ==
    /\ worker[q] = IF q = "semantic" THEN "busy" ELSE "synced"
    /\ worker' = [worker EXCEPT ![q] =
                     IF \E s \in Awaited(q) \cap Queue : Unfinished(s) THEN "busy" ELSE "none"]
    /\ UNCHANGED <<state, queue, tries, proc, image, history, trouble>>

WorkersDie(q) ==
    /\ worker[q] # "none"
    /\ trouble < MaxTrouble /\ trouble' = trouble + 1
    /\ worker' = [worker EXCEPT ![q] = "none"]
    /\ UNCHANGED <<state, queue, tries, proc, image, history>>

-----------------------------------------------------------------------------
(* The round is folded into the accepted slots; the workers are not        *)
(* stopped before.                                                         *)

Says(q, c, answer) == q \in Queue /\ answer \in queue[q][c]

\* fault: the target word is seen, and nobody asks whether the image is usable
AcceptedUnlessOverlay(c) ==
    /\ queue["semantic"][c] \cap {"fit", "word?"} # {}
    /\ Says("semantic", c, "overlay?") => Says("watermark", c, "in_scene")
    /\ Says("semantic", c, "word?") =>
          \/ Says("word_fit", c, "accept")
          \/ Says("word_fit", c, "uncertain") /\ Says("sol", c, "accept")

\* classify: every alarm has been settled in favour of the image.
Accepted(c) ==
    /\ queue["semantic"][c] \cap {"fit", "word?"} # {}
    /\ Says("semantic", c, "overlay?") => Says("watermark", c, "in_scene")
    /\ Says("semantic", c, "unusable?") => Says("usability", c, "usable")
    /\ Says("semantic", c, "word?") =>
          \/ Says("word_fit", c, "accept")
          \/ Says("word_fit", c, "uncertain") /\ Says("sol", c, "accept")

Export ==
    /\ At("round_finalize", "idle")
    /\ proc' = [proc EXCEPT !.taken = {c \in Cand : Accepted(c)},
                            !.pc = IF state.mode = "external" THEN "preview" ELSE "conclude"]
    /\ UNCHANGED <<state, queue, tries, worker, image, history, trouble>>

\* collect_decisions: what the registry makes of a candidate of the round.
Admission(c) ==
    IF queue["semantic"][c] \in {{}, {"unreviewable"}} THEN "none"
    ELSE IF Says("watermark", c, "overlay") THEN "unusable"
    ELSE IF Says("watermark", c, "uncertain") THEN "refused"
    ELSE IF ~Says("semantic", c, "unusable?") \/ Says("usability", c, "usable") THEN "usable"
    ELSE IF Says("usability", c, "unusable") THEN "unusable" ELSE "refused"

Uncollectable ==
    \/ \E q \in Queue \ {"word_fit", "sol"} : Unfinished(q) \/ FailedReviews(q) # {}
    \/ \E c \in Cand : Admission(c) = "refused"

Counts == <<Cardinality({c \in Cand : Admission(c) = "usable"}),
            Cardinality({c \in Cand : Admission(c) = "unusable"})>>

Preview ==
    /\ At("round_finalize", "preview") /\ ~Uncollectable
    /\ proc' = [proc EXCEPT !.counts = Counts, !.pc = "apply"]
    /\ UNCHANGED <<state, queue, tries, worker, image, history, trouble>>

\* A decision that differs from the recorded one, or a file that is not where it was (found at
\* once here, at its turn in the code).
Unappliable ==
    \E c \in Cand : /\ Admission(c) \in {"usable", "unusable"}
                    /\ image[c] \notin {"stored", Admission(c)}

Refused ==
    \/ At("round_finalize", "preview") /\ Uncollectable
    \/ At("round_finalize", "apply") /\ (Uncollectable \/ Counts # proc.counts \/ Unappliable)

Apply ==
    /\ At("round_finalize", "apply") /\ ~Refused
    /\ proc' = [proc EXCEPT !.pc = "record"]
    /\ UNCHANGED <<state, queue, tries, worker, image, history, trouble>>

\* The usable ones are recorded; an unusable one is moved to quarantine, then recorded.
Record ==
    /\ At("round_finalize", "record")
    /\ LET due == {c \in Cand : Admission(c) \in {"usable", "unusable"} /\ image[c] # Admission(c)}
       IN IF due = {} THEN proc' = [proc EXCEPT !.pc = "conclude"] /\ UNCHANGED image
          ELSE \E c \in due :
                  /\ image' = [image EXCEPT ![c] =
                         IF Admission(c) = "unusable" /\ @ = "stored" THEN "moved"
                         ELSE Admission(c)]
                  /\ UNCHANGED proc
    /\ UNCHANGED <<state, queue, tries, worker, history, trouble>>

\* fault: a local round without gain counts as one of the two
NoProgressAnyMode(gain) == IF gain = 0 THEN state.noProgress + 1 ELSE 0

NoProgress(gain) ==
    IF gain > 0 THEN 0 ELSE state.noProgress + IF state.mode = "external" THEN 1 ELSE 0

Conclude ==
    /\ At("round_finalize", "conclude")
    /\ \E low \in BOOLEAN :
          LET gain    == Cardinality(proc.taken)
              next    == [state EXCEPT !.round = @ + 1, !.mode = Null, !.errors = 0,
                                       !.residual = @ - gain, !.noProgress = NoProgress(gain),
                                       !.low = IF state.mode = "external" THEN low ELSE @]
          IN /\ low => state.mode = "external" /\ proc.taken # Cand
             /\ state' =
                   IF next.residual = 0 THEN Stop("complete", "none")
                   ELSE IF state.mode = "local" /\ gain = 0
                   THEN [next EXCEPT !.phase = "external_discover"]
                   ELSE IF state.mode = "external" /\ next.noProgress >= 2
                   THEN [next EXCEPT !.phase = "exhausted", !.reason = "no_progress"]
                   ELSE IF low /\ state.round >= YieldStart
                   THEN [next EXCEPT !.phase = "exhausted", !.reason = "yield"]
                   ELSE [next EXCEPT !.phase = "local_discover"]
             /\ history' = Append(history, [mode |-> state.mode, gain |-> gain])
    /\ queue' = NoQueue /\ tries' = NoTries /\ worker' = NoWorker /\ image' = InStore
    /\ proc' = Idle
    /\ UNCHANGED trouble

-----------------------------------------------------------------------------
(* Failures.  The workers end with the controller (KillMode).              *)

Fails ==
    /\ worker' = NoWorker
    /\ IF state.errors + 1 >= MaxErrors
       THEN state' = Stop("blocked", "errors") /\ proc' = Idle
       ELSE state' = [state EXCEPT !.errors = @ + 1] /\ proc' = Down
    /\ UNCHANGED <<queue, tries, image, history>>

Running == proc.pc # "down" /\ state.phase \notin Terminal

RoundRefused == Refused /\ Fails /\ UNCHANGED trouble

CommandFails ==
    /\ Running
    /\ trouble < MaxTrouble /\ trouble' = trouble + 1
    /\ Fails

Crash ==
    /\ Running
    /\ trouble < MaxTrouble /\ trouble' = trouble + 1
    /\ proc' = Down /\ worker' = NoWorker
    /\ UNCHANGED <<state, queue, tries, image, history>>

Restart ==
    /\ proc.pc = "down"
    /\ proc' = Idle
    /\ UNCHANGED <<state, queue, tries, worker, image, history, trouble>>

Controller ==
    \/ LocalDiscover \/ ExternalDiscover \/ ExternalDownload \/ PrepareReview \/ Prepared
    \/ ReviewStart \/ SyncCascades \/ ReadStatus \/ JudgeFatal \/ Judge
    \/ Export \/ Preview \/ Apply \/ Record \/ Conclude \/ RoundRefused
    \/ Restart

Worker(q) == Review(q) \/ WorkerSyncs(q) \/ WorkerRests(q)

Next ==
    \/ Controller
    \/ \E q \in Queue : Worker(q) \/ ReviewFails(q) \/ WorkersDie(q)
    \/ CommandFails \/ Crash

Spec == Init /\ [][Next]_vars

FairSpec == Spec /\ WF_vars(Controller) /\ \A q \in Queue : WF_vars(Worker(q))

-----------------------------------------------------------------------------
TypeOK ==
    /\ state.phase \in {"local_discover", "external_discover", "external_download",
                        "prepare_review", "review_wait", "round_finalize"} \cup Terminal
    /\ state.residual \in 0..Slots /\ state.noProgress \in 0..2 /\ state.errors \in 0..MaxErrors
    /\ \A q \in Queue, c \in Cand :
          queue[q][c] \in {{}, {"pending"}, {"retryable"}, {"fatal"}, {"unreviewable"}} \cup Result[q]
    /\ worker \in [Queue -> {"none", "busy", "synced"}]
    /\ image \in [Cand -> {"stored", "moved", "usable", "unusable"}]

Gained[k \in 0..Len(history)] == IF k = 0 THEN 0 ELSE Gained[k - 1] + history[k].gain

\* "Only external no-progress rounds can establish deterministic source exhaustion": since the
\* last round that gained a slot two external ones gained none; and the slots add up, whatever
\* was run twice.
ExhaustedAfterTwo ==
    /\ state.reason = "no_progress" =>
          \E j, k \in DOMAIN history :
             /\ j < k /\ history[j].mode = "external" /\ history[k].mode = "external"
             /\ \A i \in j..Len(history) : history[i].gain = 0
    /\ Gained[Len(history)] = Slots - IF state.phase = "complete" THEN 0 ELSE state.residual

\* What an external round adds to the slots, the registry has as usable: the export and the
\* finalization judge the same reviews at different times, by different code.
AcceptedAreUsable ==
    proc.pc = "conclude" /\ state.mode = "external" => \A c \in proc.taken : image[c] = "usable"

\* "Materialize every currently implied escalation before testing completion"
\* (campaign35_word_loop_controller.py, line 169).
EscalatedFirst ==
    state.phase = "round_finalize" => \A q \in Cascade : Unsynced(q) = {}

\* Every loop ends (campaign35_word_loop_controller.py, lines 3-4).
LoopEnds == <>(state.phase \in Terminal)
=============================================================================
