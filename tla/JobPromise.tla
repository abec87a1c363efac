----------------------------- MODULE JobPromise -----------------------------
(***************************************************************************)
(* What the ledger promises of a job, whatever leases, expiries, crashes,  *)
(* late results and repairs there are: an execution of it begins only      *)
(* while one is granted, one process at a time may answer for it and       *)
(* nobody else settles it, and of what is settled only a failure, or a     *)
(* block of what never began, comes back, and only with an execution left. *)
(* Jobs move on their own: a step of the ledger is a step of any of them   *)
(* together.                                                               *)
(***************************************************************************)
EXTENDS Integers

CONSTANTS
  Jobs, Workers,
  Granted   \* [Jobs -> Nat]: executions granted to a job at first

VARIABLES
  state,   \* "absent", "awaiting_approval", "queued", "held", or how it ended
  begun,   \* executions begun
  extra,   \* executions granted since
  by       \* the process that may answer for the job: one or none

vars == <<state, begun, extra, by>>

Init ==
  /\ state = [j \in Jobs |-> "absent"]
  /\ begun = [j \in Jobs |-> 0]
  /\ extra = [j \in Jobs |-> 0]
  /\ by = [j \in Jobs |-> {}]

SameCounts(j) == begun'[j] = begun[j] /\ extra'[j] = extra[j]
Keeps(j)      == state'[j] = state[j] /\ by'[j] = by[j] /\ SameCounts(j)
Becomes(j, s) == state'[j] = s /\ by'[j] = {} /\ SameCounts(j)

Admit(j) ==
  \/ state[j] = "absent" /\ (Becomes(j, "awaiting_approval") \/ Becomes(j, "queued"))
  \/ state[j] = "awaiting_approval" /\ Becomes(j, "queued")

Begin(j, w) ==
  /\ state[j] = "queued" /\ state'[j] = "held"
  /\ begun'[j] = begun[j] + 1 /\ extra'[j] = extra[j]
  /\ begun'[j] <= Granted[j] + extra[j]
  /\ by'[j] = {w} /\ \A i \in Jobs \ {j} : w \notin by'[i]

\* The process is gone: the job is held by nobody until that is noticed.
Lose(j) == state[j] = "held" /\ by[j] # {} /\ Becomes(j, "held")

Answer(j) == by[j] # {} /\ (Becomes(j, "succeeded") \/ Becomes(j, "failed"))

Return(j) == state[j] = "held" /\ Becomes(j, "queued")

GiveUp(j) ==
  /\ state[j] = "queued"
  /\ \/ Becomes(j, "blocked")
     \/ begun[j] >= Granted[j] + extra[j] /\ Becomes(j, "failed")

Cancel(j) == state[j] \in {"awaiting_approval", "queued", "held"} /\ Becomes(j, "cancelled")

Reopen(j) ==
  /\ state[j] = "failed" \/ (state[j] = "blocked" /\ begun[j] = 0)
  /\ state'[j] = "queued"
  /\ begun'[j] = begun[j] /\ extra'[j] >= extra[j]
  /\ begun'[j] < Granted[j] + extra'[j]
  /\ by[j] = {} /\ by'[j] = {}

JobStep(j) ==
  \/ Keeps(j) \/ Admit(j) \/ Lose(j) \/ Answer(j) \/ Return(j)
  \/ GiveUp(j) \/ Cancel(j) \/ Reopen(j)
  \/ \E w \in Workers : Begin(j, w)

Next == \A j \in Jobs : JobStep(j)

Spec == Init /\ [][Next]_vars
=============================================================================
