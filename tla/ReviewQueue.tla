----------------------------- MODULE ReviewQueue -----------------------------
(***************************************************************************)
(* The image review queue: the lease queue of image_registry/review_queue, *)
(* an SQLite ledger of items and of every attempt made on them, and the    *)
(* workers of image_benchmark/queue_worker_api that consume it, each a     *)
(* process that is restarted when it fails.  Each transaction is an        *)
(* action.                                                                 *)
(***************************************************************************)
EXTENDS Naturals, Sequences, FiniteSets

CONSTANTS
  Workers,     \* worker ids, one process each
  ItemCount,   \* items of the queue, in the order of their ordinals
  MaxClaims,   \* [Workers -> Nat \ {0}]: max_claims of a registered worker
  MaxAttempts  \* --max-attempts of the workers

ASSUME ReviewAssumption ==
  ItemCount \in Nat /\ MaxClaims \in [Workers -> Nat \ {0}] /\ MaxAttempts \in Nat \ {0}

Items == 1 .. ItemCount

VARIABLES
  item,      \* review_queue: the row of each item
  attempts,  \* review_attempt: the attempts on each item, by attempt_number
  worker     \* the worker processes: where each is, and the claims in its hands

vars == <<item, attempts, worker>>

ItemStatuses    == {"pending", "leased", "completed", "failed"}
AttemptStatuses == {"leased", "completed", "failed", "expired"}

(* current is current_attempt_id, 0 for NULL; result is result_json.       *)
ItemRecord    == [status : ItemStatuses, current : Nat,
                  result : {"none", "review", "unreviewable"}]
AttemptRecord == [worker : Workers, status : AttemptStatuses, lapsed : BOOLEAN]

(* starting: before the first claim of the process; polling: before a      *)
(* later one; counting: after the claim, before queue_status; working:     *)
(* before the next claim is renewed; asking: its request is out;           *)
(* returning: the endpoint is dead, untouched claims go back; finished:    *)
(* the worker found nothing left to do.                                    *)
Phases       == {"down", "starting", "polling", "counting", "working", "asking", "returning",
                 "finished"}
Claims       == Items \X (Nat \ {0})
WorkerRecord == [phase : Phases, claims : SUBSET Claims]
Down         == [phase |-> "down", claims |-> {}]

(* create_queue. *)
Init ==
  /\ item = [i \in Items |-> [status |-> "pending", current |-> 0, result |-> "none"]]
  /\ attempts = [i \in Items |-> <<>>]
  /\ worker = [w \in Workers |-> Down]

In(w, phases) == worker[w].phase \in phases
Goto(w, p)    == worker' = [worker EXCEPT ![w].phase = p]
Exit(w)       == worker' = [worker EXCEPT ![w] = Down]

-----------------------------------------------------------------------------
(* Expiry: _expire_leases, the first statement of a claim and of a status  *)
(* query.                                                                  *)

Lapsed(a) == a.status = "leased" /\ a.lapsed

Expired(tries) ==
  [n \in 1 .. Len(tries) |->
    IF Lapsed(tries[n]) THEN [tries[n] EXCEPT !.status = "expired"] ELSE tries[n]]

(* An item is released with the lease of its current attempt.              *)
CurrentLapsed(it, tries) == it.current \in 1 .. Len(tries) /\ Lapsed(tries[it.current])
LeftLeased(it, tries)    == it  \* fault: only the attempt expires
Released(it, tries) ==
  IF CurrentLapsed(it, tries) THEN [it EXCEPT !.status = "pending", !.current = 0] ELSE it

ExpireLeases ==
  /\ attempts' = [i \in Items |-> Expired(attempts[i])]
  /\ item' = [i \in Items |-> Released(item[i], attempts[i])]

(* The lease of a claim runs out on the clock.  Those of one batch may run *)
(* out one by one: each is renewed on its own.                             *)
LeaseLapses(i) ==
  /\ \E n \in 1 .. Len(attempts[i]) :
       /\ attempts[i][n].status = "leased" /\ ~attempts[i][n].lapsed
       /\ attempts' = [attempts EXCEPT ![i][n].lapsed = TRUE]
  /\ UNCHANGED <<item, worker>>

-----------------------------------------------------------------------------
(* claim_batch.                                                            *)

ActiveLease(w) ==
  \E i \in Items : \E n \in 1 .. Len(attempts[i]) :
    /\ attempts[i][n].worker = w
    /\ attempts[i][n].status = "leased" /\ ~attempts[i][n].lapsed

(* An item is not offered again to a worker that failed it or let its      *)
(* lease expire.                                                           *)
FailedOnly(tries, w)  ==  \* fault
  \E n \in 1 .. Len(tries) : tries[n].worker = w /\ tries[n].status = "failed"
FailedByAny(tries, w) ==  \* fault
  \E n \in 1 .. Len(tries) : tries[n].status \in {"failed", "expired"}
Excluded(tries, w)    ==
  \E n \in 1 .. Len(tries) : tries[n].worker = w /\ tries[n].status \in {"failed", "expired"}

Eligible(w) ==
  {i \in Items : /\ Released(item[i], attempts[i]).status = "pending"
                 /\ ~Excluded(Expired(attempts[i]), w)}
Batch(w) ==
  {i \in Eligible(w) : Cardinality({k \in Eligible(w) : k < i}) < MaxClaims[w]}

NewAttempt(w) == [worker |-> w, status |-> "leased", lapsed |-> FALSE]

ClaimBatch(w) ==
  /\ In(w, {"starting", "polling"}) /\ ~ActiveLease(w)
  /\ attempts' = [i \in Items |->
       IF i \in Batch(w) THEN Append(Expired(attempts[i]), NewAttempt(w))
       ELSE Expired(attempts[i])]
  /\ item' = [i \in Items |->
       IF i \in Batch(w)
         THEN [Released(item[i], attempts[i]) EXCEPT
                 !.status = "leased", !.current = Len(attempts[i]) + 1]
         ELSE Released(item[i], attempts[i])]
  /\ worker' = [worker EXCEPT
       ![w] = [phase |-> "counting",
               claims |-> {<<i, Len(attempts[i]) + 1>> : i \in Batch(w)}]]

(* A worker restarted over leases of its former process is refused, and    *)
(* exits; the transaction, its expiry included, is rolled back.            *)
ClaimRefused(w) ==
  /\ In(w, {"starting", "polling"}) /\ ActiveLease(w)
  /\ Exit(w)
  /\ UNCHANGED <<item, attempts>>

(* queue_status; without claims the worker polls on while work is left.    *)
Unfinished == \E i \in Items : Released(item[i], attempts[i]).status \in {"pending", "leased"}

CountQueue(w) ==
  /\ In(w, {"counting"})
  /\ ExpireLeases
  /\ Goto(w, IF worker[w].claims # {} THEN "working"
             ELSE IF Unfinished THEN "polling" ELSE "finished")

-----------------------------------------------------------------------------
(* The claims of a batch in the order of their ordinals.                   *)

IsNext(w, c) == c \in worker[w].claims /\ \A d \in worker[w].claims : c[1] <= d[1]

(* The row a claim token stands for, as its owner.                         *)
OwnRow(w, c)    == c[2] \in 1 .. Len(attempts[c[1]]) /\ attempts[c[1]][c[2]].worker = w
StaleHeld(w, c) == OwnRow(w, c) /\ attempts[c[1]][c[2]].status \in {"leased", "expired"}  \* fault
Held(w, c)      ==
  OwnRow(w, c) /\ attempts[c[1]][c[2]].status = "leased" /\ ~attempts[c[1]][c[2]].lapsed

(* The claim is done with: on to the next one, or to the next batch.       *)
Abandon(w, c) == worker' = [worker EXCEPT ![w] = [phase |-> "polling", claims |-> {}]]  \* fault
Proceed(w, c) ==
  LET left == worker[w].claims \ {c} IN
  worker' = [worker EXCEPT ![w] = [phase |-> IF left = {} THEN "polling" ELSE "working",
                                   claims |-> left]]

(* renew_claim; a lease that has not lapsed is extended, whatever was left *)
(* of it.                                                                  *)
RenewClaim(w) ==
  /\ In(w, {"working"})
  /\ \E c \in worker[w].claims : IsNext(w, c) /\ Held(w, c)
  /\ Goto(w, "asking")
  /\ UNCHANGED <<item, attempts>>

(* _finish_claim. *)
UpdateItem(c, status, result) ==
  item' = IF item[c[1]].current = c[2]
            THEN [item EXCEPT ![c[1]] = [status |-> status, current |-> 0, result |-> result]]
            ELSE item
FinishClaim(c, outcome, status, result) ==
  /\ attempts' = [attempts EXCEPT ![c[1]][c[2]].status = outcome]
  /\ UpdateItem(c, status, result)

CompleteClaim(w) ==
  /\ In(w, {"asking"})
  /\ \E c \in worker[w].claims :
       /\ IsNext(w, c) /\ Held(w, c)
       /\ FinishClaim(c, "completed", "completed", "review")
       /\ Proceed(w, c)

AfterFailure(c) == IF c[2] < MaxAttempts THEN "pending" ELSE "failed"

(* The image is unreadable, or the answer is missing or invalid.           *)
FailClaim(w) ==
  /\ In(w, {"working", "asking"})
  /\ \E c \in worker[w].claims :
       /\ IsNext(w, c) /\ Held(w, c)
       /\ FinishClaim(c, "failed", AfterFailure(c), "none")
       /\ Proceed(w, c)

(* The lease was lost: renewing, completing and failing are all refused.   *)
ClaimLost(w) ==
  /\ In(w, {"working", "asking"})
  /\ \E c \in worker[w].claims : IsNext(w, c) /\ ~Held(w, c) /\ Proceed(w, c)
  /\ UNCHANGED <<item, attempts>>

(* The endpoint drops the connection: the claim goes back whatever its     *)
(* attempt, unless it was lost, and the worker gives up its batch.         *)
EndpointFails(w) ==
  /\ In(w, {"asking"})
  /\ \E c \in worker[w].claims :
       /\ IsNext(w, c)
       /\ IF Held(w, c) THEN FinishClaim(c, "failed", "pending", "none")
          ELSE UNCHANGED <<item, attempts>>
       /\ worker' = [worker EXCEPT ![w] = [phase |-> "returning", claims |-> @.claims \ {c}]]

(* Claims leased with the batch and never sent are returned.  A lost one   *)
(* ends the process with the others still leased.                          *)
ReturnUntouched(w) ==
  /\ In(w, {"returning"})
  /\ \E c \in worker[w].claims :
       /\ IsNext(w, c) /\ Held(w, c)
       /\ FinishClaim(c, "failed", "pending", "none")
       /\ worker' = [worker EXCEPT ![w].claims = @ \ {c}]

GiveUp(w) ==
  /\ In(w, {"returning"})
  /\ \A c \in worker[w].claims : IsNext(w, c) => ~Held(w, c)
  /\ Exit(w)
  /\ UNCHANGED <<item, attempts>>

-----------------------------------------------------------------------------
(* The life of a worker process.                                           *)

(* register_worker. *)
Start(w) ==
  /\ In(w, {"down", "finished"})
  /\ Goto(w, "starting")
  /\ UNCHANGED <<item, attempts>>

(* The health check before a claim fails. *)
Unhealthy(w) ==
  /\ In(w, {"starting", "polling"})
  /\ Exit(w)
  /\ UNCHANGED <<item, attempts>>

Crash(w) ==
  /\ ~In(w, {"down", "finished"})
  /\ Exit(w)
  /\ UNCHANGED <<item, attempts>>

-----------------------------------------------------------------------------
(* The controller and the operator.                                        *)

QueueStatus == ExpireLeases /\ UNCHANGED worker

(* requeue_terminal_failures: the failed items whose last error is of a    *)
(* chosen type.                                                            *)
RequeueFailures ==
  /\ \E S \in (SUBSET {i \in Items : item[i].status = "failed"}) \ {{}} :
       item' = [i \in Items |->
         IF i \in S THEN [status |-> "pending", current |-> 0, result |-> "none"] ELSE item[i]]
  /\ UNCHANGED <<attempts, worker>>

(* finalize_terminal_failures_as_unreviewable.                             *)
FinalizeFailures ==
  /\ \E S \in (SUBSET {i \in Items : item[i].status = "failed"}) \ {{}} :
       item' = [i \in Items |->
         IF i \in S THEN [status |-> "completed", current |-> 0, result |-> "unreviewable"]
         ELSE item[i]]
  /\ UNCHANGED <<attempts, worker>>

-----------------------------------------------------------------------------
(* What a worker does of itself, once it is up.                            *)
Advance(w) ==
  \/ ClaimRefused(w) \/ CountQueue(w)
  \/ RenewClaim(w) \/ CompleteClaim(w) \/ FailClaim(w) \/ ClaimLost(w)
  \/ EndpointFails(w) \/ ReturnUntouched(w) \/ GiveUp(w)

Next ==
  \/ \E w \in Workers : ClaimBatch(w) \/ Advance(w) \/ Start(w) \/ Unhealthy(w) \/ Crash(w)
  \/ \E i \in Items : LeaseLapses(i)
  \/ QueueStatus \/ RequeueFailures \/ FinalizeFailures

Spec == Init /\ [][Next]_vars

(* A process that failed is restarted (Restart=on-failure) and works on,   *)
(* because a request is bounded by its timeout; a worker that again and    *)
(* again comes to the point of claiming finds its endpoint healthy some    *)
(* time; leases run out.  Nothing is assumed of crashes.                   *)
Fairness ==
  /\ \A w \in Workers : /\ WF_vars(Start(w) /\ In(w, {"down"}))
                        /\ WF_vars(Advance(w))
                        /\ SF_vars(ClaimBatch(w))
  /\ \A i \in Items : WF_vars(LeaseLapses(i))

FairSpec == Spec /\ Fairness

-----------------------------------------------------------------------------
(* Properties.                                                             *)

(* The type invariant of the rows and processes.                           *)
TypeOK ==
  /\ item \in [Items -> ItemRecord]
  /\ attempts \in [Items -> Seq(AttemptRecord)]
  /\ worker \in [Workers -> WorkerRecord]

(* A lease is an item's current attempt and nothing else: an item is       *)
(* leased exactly while its current attempt is, and no other attempt on it *)
(* is.  So no two workers hold one image, however expiries, late answers   *)
(* and restarts interleave.                                                *)
LeaseIsCurrent(i) ==
  /\ item[i].status = "leased" <=> item[i].current # 0
  /\ item[i].current \in 0 .. Len(attempts[i])
  /\ \A n \in 1 .. Len(attempts[i]) : attempts[i][n].status = "leased" <=> n = item[i].current
OneLease == \A i \in Items : LeaseIsCurrent(i)

(* The result of an item is that of its one completed attempt, or it was   *)
(* closed as unreviewable and no attempt on it ever completed.             *)
ResultOf(i) ==
  LET done == {n \in 1 .. Len(attempts[i]) : attempts[i][n].status = "completed"} IN
  /\ item[i].result # "none" <=> item[i].status = "completed"
  /\ item[i].result = "review" <=> done # {}
  /\ \A m, n \in done : m = n
OneResult == \A i \in Items : ResultOf(i)

(* "A failed or expired item is excluded from that worker's future claims  *)
(* and falls through to another registered worker": no worker ever makes   *)
(* two attempts on one item, across requeues, restarts and expiries.       *)
EachOnce(i)   == \A m, n \in 1 .. Len(attempts[i]) :
                   attempts[i][m].worker = attempts[i][n].worker => m = n
OncePerWorker == \A i \in Items : EachOnce(i)

(* Every attempt remains in the audit table, and one that ended stays as   *)
(* it ended: no stale worker submits after losing its lease.               *)
AttemptsRemain ==
  [][\A i \in Items : \A n \in 1 .. Len(attempts[i]) :
       /\ Len(attempts'[i]) >= Len(attempts[i])
       /\ attempts[i][n].status # "leased" => attempts'[i][n] = attempts[i][n]]_vars

(* A worker is refused a batch only over the leases of a process of its    *)
(* own that died: within one process the leases of a batch are all given   *)
(* up, by an answer or by lapsing, before the next batch is claimed.       *)
BatchGivenUp == \A w \in Workers : In(w, {"polling"}) => ~ActiveLease(w)

(* Every item is settled, or offered to every worker that stays: an item   *)
(* does not wait or stay leased while a worker that never tried it keeps   *)
(* polling.                                                                *)
Tried(i, w)   == \E n \in 1 .. Len(attempts[i]) : attempts[i][n].worker = w
ItemsGoRound ==
  \A i \in Items :
    item[i].status \in {"pending", "leased"} ~>
      \/ item[i].status \in {"completed", "failed"}
      \/ \A w \in Workers : Tried(i, w) \/ In(w, {"finished"})
=============================================================================
