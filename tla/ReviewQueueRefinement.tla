------------------------ MODULE ReviewQueueRefinement ------------------------
(***************************************************************************)
(* The review queue keeps the promise of ReviewPromise: what its rows say  *)
(* of an item, read as the item's owner, history and outcome.              *)
(***************************************************************************)
EXTENDS ReviewQueue

CONSTANT Nobody

ASSUME NobodyAssumption == Nobody \notin Workers

(* What the rows of one item say: it of review_queue, tries of             *)
(* review_attempt.                                                         *)
Owner(it, tries)  == IF it.current = 0 THEN Nobody ELSE tries[it.current].worker
IsLost(it, tries) == it.current # 0 /\ tries[it.current].lapsed
TriedBy(tries)    == {tries[n].worker : n \in 1 .. Len(tries)}
Outcome(it)       == CASE it.result = "review"       -> "reviewed"
                       [] it.result = "unreviewable" -> "unreviewable"
                       [] it.status = "failed"       -> "failed"
                       [] OTHER                      -> "open"

ownerOf   == [i \in Items |-> Owner(item[i], attempts[i])]
lostOf    == {i \in Items : IsLost(item[i], attempts[i])}
triedOf   == [i \in Items |-> TriedBy(attempts[i])]
outcomeOf == [i \in Items |-> Outcome(item[i])]

Promise == INSTANCE ReviewPromise
             WITH owner <- ownerOf, lost <- lostOf, tried <- triedOf, outcome <- outcomeOf

(* Every step of the ledger and of the workers is a step the promise       *)
(* allows of each item, or leaves the item as it was.                      *)
PromiseKept == Promise!Spec
=============================================================================
