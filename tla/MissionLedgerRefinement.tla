----------------------- MODULE MissionLedgerRefinement -----------------------
(***************************************************************************)
(* The ledger keeps the promise of JobPromise: what its rows, and the      *)
(* tokens that its processes hold, say of a job.                           *)
(***************************************************************************)
EXTENDS MissionLedger

(* What a row of jobs says.                                                *)
State(row) == IF row.status \in Live THEN "held" ELSE row.status

(* A process answers for a job while it holds the token of the live run,   *)
(* the last one; the token of an earlier run is worth nothing.             *)
Answers(j) == {l \in Lanes : job[j].status \in Live /\ lane[l].run = <<j, job[j].attempts>>}

stateOf == [j \in Jobs |-> State(job[j])]
begunOf == [j \in Jobs |-> job[j].attempts]
extraOf == [j \in Jobs |-> job[j].restarts]
byOf    == [j \in Jobs |-> Answers(j)]

Promise == INSTANCE JobPromise
             WITH Workers <- Lanes, Granted <- [j \in Jobs |-> Definition[j].maxAttempts],
                  state <- stateOf, begun <- begunOf, extra <- extraOf, by <- byOf

(* Every step of the ledger is a step the promise allows of each job, or   *)
(* leaves the job as it was.                                               *)
JobPromiseKept == Promise!Spec
=============================================================================
