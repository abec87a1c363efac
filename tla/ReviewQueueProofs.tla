-------------------------- MODULE ReviewQueueProofs --------------------------
(***************************************************************************)
(* What holds of the review queue for any number of items and workers:     *)
(* the rows of the ledger agree, no worker has an item twice, the audit    *)
(* table is only added to, and the ledger implements ReviewPromise.        *)
(*                                                                         *)
(* Every step of the system moves the rows of one item in one of seven     *)
(* ways (RowStep).  What is claimed of the rows is proved of these ways    *)
(* once, and carried over to the steps by StepMovesRows.  What a worker    *)
(* has in hand is told by the rows too: a batch of a worker that lives is  *)
(* whole, expired or given up (Batches, at the end).                       *)
(***************************************************************************)
EXTENDS ReviewQueueRefinement, SequenceTheorems, TLAPS

-----------------------------------------------------------------------------
(* The rows of one item: it of review_queue, as of review_attempt.         *)

Typed(it, tries) == it \in ItemRecord /\ tries \in Seq(AttemptRecord)

Agree(it, tries) ==
  /\ it.status = "leased" <=> it.current # 0
  /\ it.current \in 0 .. Len(tries)
  /\ \A n \in 1 .. Len(tries) : tries[n].status = "leased" <=> n = it.current
  /\ it.result # "none" <=> it.status = "completed"
  /\ it.result = "review" <=> \E n \in 1 .. Len(tries) : tries[n].status = "completed"
  /\ \A m, n \in 1 .. Len(tries) :
       tries[m].status = "completed" /\ tries[n].status = "completed" => m = n
  /\ \A m, n \in 1 .. Len(tries) : tries[m].worker = tries[n].worker => m = n

Expires(it, tries, it2, tries2) == it2 = Released(it, tries) /\ tries2 = Expired(tries)

IsClaimed(it, tries, it2, tries2, w) ==
  /\ Released(it, tries).status = "pending" /\ ~Excluded(Expired(tries), w)
  /\ it2 = [Released(it, tries) EXCEPT !.status = "leased", !.current = Len(tries) + 1]
  /\ tries2 = Append(Expired(tries), NewAttempt(w))

Lapses(it, tries, it2, tries2, n) ==
  /\ tries[n].status = "leased" /\ ~tries[n].lapsed
  /\ tries2 = [tries EXCEPT ![n].lapsed = TRUE] /\ it2 = it

Finishes(it, tries, it2, tries2, n) ==
  /\ tries[n].status = "leased" /\ ~tries[n].lapsed
  /\ \E outcome \in {"completed", "failed"}, status \in {"pending", "completed", "failed"},
        result \in {"none", "review"} :
       /\ (outcome = "completed") <=> (status = "completed")
       /\ (outcome = "completed") <=> (result = "review")
       /\ tries2 = [tries EXCEPT ![n].status = outcome]
       /\ it2 = IF it.current = n
                  THEN [status |-> status, current |-> 0, result |-> result] ELSE it

Reopens(it, tries, it2, tries2) ==
  /\ it.status = "failed" /\ tries2 = tries
  /\ it2 \in {[status |-> "pending", current |-> 0, result |-> "none"],
              [status |-> "completed", current |-> 0, result |-> "unreviewable"]}

RowStep(it, tries, it2, tries2) ==
  \/ it2 = it /\ tries2 = tries
  \/ Expires(it, tries, it2, tries2)
  \/ \E w \in Workers : IsClaimed(it, tries, it2, tries2, w)
  \/ \E n \in 1 .. Len(tries) :
       Lapses(it, tries, it2, tries2, n) \/ Finishes(it, tries, it2, tries2, n)
  \/ Reopens(it, tries, it2, tries2)

-----------------------------------------------------------------------------
(* Facts about the ways.                                                   *)

(* A function on 1 .. n is a sequence of length n.                         *)
LEMMA FunctionIsSequence ==
  ASSUME NEW R, NEW n \in Nat, NEW f \in [1 .. n -> R]
  PROVE  f \in Seq(R) /\ Len(f) = n
<1>1. f \in Seq(R)
  OBVIOUS
<1> QED
  BY <1>1

(* Expiry keeps the number of attempts, their workers, and each attempt    *)
(* whose lease is good or that ended.                                      *)
LEMMA ExpiredRows ==
  ASSUME NEW tries \in Seq(AttemptRecord)
  PROVE  /\ Expired(tries) \in Seq(AttemptRecord) /\ Len(Expired(tries)) = Len(tries)
         /\ \A n \in 1 .. Len(tries) :
              /\ tries[n] \in AttemptRecord
              /\ Expired(tries)[n].worker = tries[n].worker
              /\ Lapsed(tries[n]) => Expired(tries)[n].status = "expired"
              /\ ~Lapsed(tries[n]) => Expired(tries)[n] = tries[n]
<1>1. Len(tries) \in Nat /\ \A n \in 1 .. Len(tries) : tries[n] \in AttemptRecord
  BY LenProperties
<1>2. \A n \in 1 .. Len(tries) : [tries[n] EXCEPT !.status = "expired"] \in AttemptRecord
  BY <1>1 DEF AttemptRecord, AttemptStatuses
<1>3. \A n \in 1 .. Len(tries) :
        (IF Lapsed(tries[n]) THEN [tries[n] EXCEPT !.status = "expired"] ELSE tries[n])
          \in AttemptRecord
  BY <1>1, <1>2
<1>4. Expired(tries) \in [1 .. Len(tries) -> AttemptRecord]
  BY <1>3 DEF Expired
<1>5. Expired(tries) \in Seq(AttemptRecord) /\ Len(Expired(tries)) = Len(tries)
  BY <1>1, <1>4, FunctionIsSequence
<1>6. ASSUME NEW n \in 1 .. Len(tries)
      PROVE  /\ Expired(tries)[n].worker = tries[n].worker
             /\ Lapsed(tries[n]) => Expired(tries)[n].status = "expired"
             /\ ~Lapsed(tries[n]) => Expired(tries)[n] = tries[n]
  BY <1>1 DEF Expired, AttemptRecord
<1> QED
  BY <1>1, <1>5, <1>6

(* A released item is typed, and pending if it was released.               *)
LEMMA ReleasedRow ==
  ASSUME NEW it \in ItemRecord, NEW tries
  PROVE  /\ Released(it, tries) \in ItemRecord /\ Released(it, tries).result = it.result
         /\ CurrentLapsed(it, tries) => /\ Released(it, tries).status = "pending"
                                     /\ Released(it, tries).current = 0
         /\ ~CurrentLapsed(it, tries) => Released(it, tries) = it
  BY DEF Released, ItemRecord, ItemStatuses

(* Changing one attempt keeps the others.                                  *)
LEMMA ChangedAttempt ==
  ASSUME NEW tries \in Seq(AttemptRecord), NEW n \in 1 .. Len(tries), NEW a \in AttemptRecord
  PROVE  /\ [tries EXCEPT ![n] = a] \in Seq(AttemptRecord)
         /\ Len([tries EXCEPT ![n] = a]) = Len(tries)
         /\ \A m \in 1 .. Len(tries) : [tries EXCEPT ![n] = a][m] = IF m = n THEN a ELSE tries[m]
  BY ExceptSeq, LenProperties

(* A new attempt comes after the others.                                   *)
LEMMA AddedAttempt ==
  ASSUME NEW tries \in Seq(AttemptRecord), NEW a \in AttemptRecord
  PROVE  /\ Append(tries, a) \in Seq(AttemptRecord)
         /\ Len(Append(tries, a)) = Len(tries) + 1
         /\ Append(tries, a)[Len(tries) + 1] = a
         /\ \A m \in 1 .. Len(tries) : Append(tries, a)[m] = tries[m]
<1>1. Append(tries, a) \in Seq(AttemptRecord)
  BY AppendProperties
<1>2. Len(Append(tries, a)) = Len(tries) + 1
  BY AppendProperties
<1>3. Append(tries, a)[Len(tries) + 1] = a
  BY AppendProperties
<1>4. \A m \in 1 .. Len(tries) : Append(tries, a)[m] = tries[m]
  BY AppendProperties
<1> QED
  BY <1>1, <1>2, <1>3, <1>4

-----------------------------------------------------------------------------
(* The ways of the rows keep them typed and in agreement.                  *)

LEMMA ExpiryAgrees ==
  ASSUME NEW it, NEW tries, Typed(it, tries), Agree(it, tries)
  PROVE  Typed(Released(it, tries), Expired(tries)) /\ Agree(Released(it, tries), Expired(tries))
<1> DEFINE it2 == Released(it, tries)
           tries2 == Expired(tries)
<1>1. /\ tries2 \in Seq(AttemptRecord) /\ Len(tries2) = Len(tries)
      /\ \A n \in 1 .. Len(tries) :
           /\ tries[n] \in AttemptRecord
           /\ tries2[n].worker = tries[n].worker
           /\ Lapsed(tries[n]) => tries2[n].status = "expired"
           /\ ~Lapsed(tries[n]) => tries2[n] = tries[n]
  BY ExpiredRows DEF Typed
<1>2. /\ it2 \in ItemRecord /\ it2.result = it.result
      /\ CurrentLapsed(it, tries) => it2.status = "pending" /\ it2.current = 0
      /\ ~CurrentLapsed(it, tries) => it2 = it
  BY ReleasedRow DEF Typed
<1>3. \A n \in 1 .. Len(tries) : tries[n].status = "completed" <=> tries2[n].status = "completed"
  BY <1>1 DEF Lapsed
<1>4. Len(tries) \in Nat /\ it.current \in Nat
  BY LenProperties DEF Typed, ItemRecord
<1> HIDE DEF it2, tries2
<1>5. it2.status = "leased" <=> it2.current # 0
  BY <1>2 DEF Agree
<1>6. it2.current \in 0 .. Len(tries2)
  BY <1>1, <1>2, <1>4 DEF Agree
<1>7. \A n \in 1 .. Len(tries2) : tries2[n].status = "leased" <=> n = it2.current
  <2>1. CASE CurrentLapsed(it, tries)
    BY <2>1, <1>1, <1>2, <1>4 DEF Agree, CurrentLapsed, Lapsed
  <2>2. CASE ~CurrentLapsed(it, tries)
    <3>1. \A n \in 1 .. Len(tries) : ~Lapsed(tries[n])
      BY <2>2, <1>4 DEF Agree, CurrentLapsed, Lapsed
    <3> QED
      BY <2>2, <3>1, <1>1, <1>2 DEF Agree
  <2> QED
    BY <2>1, <2>2
<1>8. it2.result # "none" <=> it2.status = "completed"
  <2>1. CASE CurrentLapsed(it, tries)
    <3>1. it.status = "leased"
      BY <2>1, <1>4 DEF Agree, CurrentLapsed
    <3> QED
      BY <2>1, <3>1, <1>2 DEF Agree
  <2>2. CASE ~CurrentLapsed(it, tries)
    BY <2>2, <1>2 DEF Agree
  <2> QED
    BY <2>1, <2>2
<1>9. it2.result = "review" <=> \E n \in 1 .. Len(tries2) : tries2[n].status = "completed"
  BY <1>1, <1>2, <1>3 DEF Agree
<1>10. \A m, n \in 1 .. Len(tries2) :
         tries2[m].status = "completed" /\ tries2[n].status = "completed" => m = n
  BY <1>1, <1>3 DEF Agree
<1>11. \A m, n \in 1 .. Len(tries2) : tries2[m].worker = tries2[n].worker => m = n
  BY <1>1 DEF Agree
<1>12. Typed(it2, tries2)
  BY <1>1, <1>2 DEF Typed
<1>13. Agree(it2, tries2)
  BY <1>5, <1>6, <1>7, <1>8, <1>9, <1>10, <1>11 DEF Agree
<1> QED
  BY <1>12, <1>13 DEF it2, tries2

(* The worker had no earlier attempt on the item: one still leased or      *)
(* completed would not leave the item pending.                             *)
LEMMA ClaimAgrees ==
  ASSUME NEW it, NEW tries, Typed(it, tries), Agree(it, tries),
         NEW w \in Workers, it.status = "pending", ~Excluded(tries, w),
         NEW it2, it2 = [it EXCEPT !.status = "leased", !.current = Len(tries) + 1],
         NEW tries2, tries2 = Append(tries, NewAttempt(w))
  PROVE  Typed(it2, tries2) /\ Agree(it2, tries2)
<1>1. NewAttempt(w) \in AttemptRecord /\ NewAttempt(w).worker = w
        /\ NewAttempt(w).status = "leased"
  BY DEF NewAttempt, AttemptRecord, AttemptStatuses
<1>2. /\ tries2 \in Seq(AttemptRecord) /\ Len(tries2) = Len(tries) + 1
      /\ tries2[Len(tries) + 1] = NewAttempt(w)
      /\ \A n \in 1 .. Len(tries) : tries2[n] = tries[n]
  BY <1>1, AddedAttempt DEF Typed
<1>3. Len(tries) \in Nat /\ it \in ItemRecord
  BY LenProperties DEF Typed
<1>4. it2 \in ItemRecord /\ it2.status = "leased" /\ it2.current = Len(tries) + 1
        /\ it2.result = it.result
  <2> DEFINE next == Len(tries) + 1
  <2>1. next \in Nat
    BY <1>3
  <2>2. it2 = [it EXCEPT !.status = "leased", !.current = next]
    OBVIOUS
  <2> HIDE DEF next
  <2>3. it2 \in ItemRecord /\ it2.status = "leased" /\ it2.current = next
          /\ it2.result = it.result
    BY <1>3, <2>1, <2>2 DEF ItemRecord, ItemStatuses
  <2> QED
    BY <2>3 DEF next
<1>5. it.current = 0 /\ it.result = "none"
  BY DEF Agree
<1>6. \A n \in 1 .. Len(tries) : tries[n] \in AttemptRecord
  BY LenProperties DEF Typed
<1>7. \A n \in 1 .. Len(tries) : tries[n].status \in {"failed", "expired"}
  <2>1. \A n \in 1 .. Len(tries) : tries[n].status # "leased"
    BY <1>3, <1>5 DEF Agree
  <2>2. \A n \in 1 .. Len(tries) : tries[n].status # "completed"
    BY <1>5 DEF Agree
  <2> QED
    BY <1>6, <2>1, <2>2 DEF AttemptRecord, AttemptStatuses
<1>8. \A n \in 1 .. Len(tries) : tries[n].worker # w
  BY <1>7 DEF Excluded
<1>9. \A n \in 1 .. Len(tries2) : n = Len(tries) + 1 \/ n \in 1 .. Len(tries)
  BY <1>2, <1>3
<1>10. \A n \in 1 .. Len(tries2) : tries2[n].status = "leased" <=> n = it2.current
  BY <1>1, <1>2, <1>3, <1>4, <1>7, <1>9
<1>11. \A n \in 1 .. Len(tries2) : tries2[n].status # "completed"
  BY <1>1, <1>2, <1>7, <1>9
<1>12. \A m, n \in 1 .. Len(tries2) : tries2[m].worker = tries2[n].worker => m = n
  <2>1. \A m, n \in 1 .. Len(tries) : tries2[m].worker = tries2[n].worker => m = n
    BY <1>2 DEF Agree
  <2>2. \A n \in 1 .. Len(tries) : tries2[n].worker # w
    BY <1>2, <1>8
  <2>3. tries2[Len(tries) + 1].worker = w
    BY <1>1, <1>2
  <2> QED
    BY <2>1, <2>2, <2>3, <1>9
<1>13. it2.current \in 0 .. Len(tries2) /\ it2.current # 0
  BY <1>2, <1>3, <1>4
<1>14. Typed(it2, tries2)
  BY <1>2, <1>4 DEF Typed
<1> QED
  BY <1>4, <1>5, <1>10, <1>11, <1>12, <1>13, <1>14 DEF Agree

(* A lease that runs out changes no status.                                *)
LEMMA LapseAgrees ==
  ASSUME NEW it, NEW tries, Typed(it, tries), Agree(it, tries), NEW it2, NEW tries2,
         NEW n \in 1 .. Len(tries), Lapses(it, tries, it2, tries2, n)
  PROVE  Typed(it2, tries2) /\ Agree(it2, tries2)
<1> DEFINE a == [tries[n] EXCEPT !.lapsed = TRUE]
<1>1. tries[n] \in AttemptRecord
  BY LenProperties DEF Typed
<1>2. a \in AttemptRecord /\ a.status = tries[n].status /\ a.worker = tries[n].worker
  BY <1>1 DEF AttemptRecord
<1>3. tries2 = [tries EXCEPT ![n] = a] /\ it2 = it
  BY DEF Lapses
<1> HIDE DEF a
<1>4. /\ tries2 \in Seq(AttemptRecord) /\ Len(tries2) = Len(tries)
      /\ \A m \in 1 .. Len(tries) : tries2[m] = IF m = n THEN a ELSE tries[m]
  BY <1>2, <1>3, ChangedAttempt DEF Typed
<1>5. \A m \in 1 .. Len(tries) :
        tries2[m].status = tries[m].status /\ tries2[m].worker = tries[m].worker
  BY <1>2, <1>4
<1> QED
  BY <1>3, <1>4, <1>5 DEF Typed, Agree

(* A finished claim was its item's current attempt.                        *)
LEMMA FinishAgrees ==
  ASSUME NEW it, NEW tries, Typed(it, tries), Agree(it, tries), NEW it2, NEW tries2,
         NEW n \in 1 .. Len(tries), Finishes(it, tries, it2, tries2, n)
  PROVE  Typed(it2, tries2) /\ Agree(it2, tries2)
<1>1. PICK outcome \in {"completed", "failed"}, status \in {"pending", "completed", "failed"},
           result \in {"none", "review"} :
        /\ (outcome = "completed") <=> (status = "completed")
        /\ (outcome = "completed") <=> (result = "review")
        /\ tries2 = [tries EXCEPT ![n].status = outcome]
        /\ it2 = IF it.current = n
                   THEN [status |-> status, current |-> 0, result |-> result] ELSE it
  BY DEF Finishes
<1> DEFINE a == [tries[n] EXCEPT !.status = outcome]
<1>2. tries[n] \in AttemptRecord /\ Len(tries) \in Nat
  BY LenProperties DEF Typed
<1>3. a \in AttemptRecord /\ a.status = outcome /\ a.worker = tries[n].worker
  BY <1>2 DEF AttemptRecord, AttemptStatuses
<1>4. tries2 = [tries EXCEPT ![n] = a]
  BY <1>1
<1> HIDE DEF a
<1>5. /\ tries2 \in Seq(AttemptRecord) /\ Len(tries2) = Len(tries)
      /\ \A m \in 1 .. Len(tries) : tries2[m] = IF m = n THEN a ELSE tries[m]
  BY <1>3, <1>4, ChangedAttempt DEF Typed
<1>6. n = it.current /\ it.status = "leased" /\ it.result = "none"
  BY <1>2 DEF Agree, Finishes
<1>7. it2 = [status |-> status, current |-> 0, result |-> result]
  BY <1>1, <1>6
<1>8. \A m \in 1 .. Len(tries) : m # n => tries[m].status \notin {"leased", "completed"}
  BY <1>6 DEF Agree
<1>9. \A m \in 1 .. Len(tries2) : tries2[m].status # "leased"
  BY <1>1, <1>3, <1>5, <1>8
<1>10. \A m \in 1 .. Len(tries2) : tries2[m].status = "completed" <=> m = n /\ outcome = "completed"
  BY <1>3, <1>5, <1>8
<1>11. \A m \in 1 .. Len(tries2) : tries2[m].worker = tries[m].worker
  BY <1>3, <1>5
<1>12. \A l, m \in 1 .. Len(tries2) : tries2[l].worker = tries2[m].worker => l = m
  BY <1>5, <1>11 DEF Agree
<1>13. Typed(it2, tries2)
  BY <1>5, <1>7 DEF Typed, ItemRecord, ItemStatuses
<1>14. /\ it2.status = "leased" <=> it2.current # 0
       /\ it2.current \in 0 .. Len(tries2)
       /\ \A m \in 1 .. Len(tries2) : tries2[m].status = "leased" <=> m = it2.current
  BY <1>2, <1>5, <1>7, <1>9
<1>15. /\ it2.result # "none" <=> it2.status = "completed"
       /\ it2.result = "review" <=> \E m \in 1 .. Len(tries2) : tries2[m].status = "completed"
  BY <1>1, <1>5, <1>7, <1>10
<1>16. \A l, m \in 1 .. Len(tries2) :
         tries2[l].status = "completed" /\ tries2[m].status = "completed" => l = m
  BY <1>10
<1> QED
  BY <1>12, <1>13, <1>14, <1>15, <1>16 DEF Agree

(* Each way keeps the rows typed and in agreement.                         *)
LEMMA RowStepAgrees ==
  ASSUME NEW it, NEW tries, NEW it2, NEW tries2,
         Typed(it, tries), Agree(it, tries), RowStep(it, tries, it2, tries2)
  PROVE  Typed(it2, tries2) /\ Agree(it2, tries2)
<1>1. CASE it2 = it /\ tries2 = tries
  BY <1>1
<1>2. CASE Expires(it, tries, it2, tries2)
  BY <1>2, ExpiryAgrees DEF Expires
<1>3. ASSUME NEW w \in Workers, IsClaimed(it, tries, it2, tries2, w)
      PROVE  Typed(it2, tries2) /\ Agree(it2, tries2)
  <2>1. Typed(Released(it, tries), Expired(tries)) /\ Agree(Released(it, tries), Expired(tries))
    BY ExpiryAgrees
  <2>2. Len(Expired(tries)) = Len(tries)
    BY ExpiredRows DEF Typed
  <2> QED
    BY <1>3, <2>1, <2>2, ClaimAgrees DEF IsClaimed
<1>4. ASSUME NEW n \in 1 .. Len(tries),
             Lapses(it, tries, it2, tries2, n) \/ Finishes(it, tries, it2, tries2, n)
      PROVE  Typed(it2, tries2) /\ Agree(it2, tries2)
  BY <1>4, LapseAgrees, FinishAgrees
<1>5. CASE Reopens(it, tries, it2, tries2)
  <2>1. tries2 = tries /\ it2 \in ItemRecord /\ it2.current = 0 /\ it2.status # "leased"
    BY <1>5 DEF Reopens, ItemRecord, ItemStatuses
  <2>2. it.current = 0 /\ it.result = "none"
    BY <1>5 DEF Reopens, Agree
  <2>3. it2.result # "review" /\ (it2.result # "none" <=> it2.status = "completed")
    BY <1>5 DEF Reopens
  <2> QED
    BY <2>1, <2>2, <2>3 DEF Typed, Agree
<1> QED
  BY <1>1, <1>2, <1>3, <1>4, <1>5 DEF RowStep

-----------------------------------------------------------------------------
(* Every step moves the rows of every item in one of the ways.             *)

MovesRows ==
  /\ DOMAIN item' = Items /\ item' = [i \in DOMAIN item' |-> item'[i]]
  /\ DOMAIN attempts' = Items /\ attempts' = [i \in DOMAIN attempts' |-> attempts'[i]]
  /\ \A i \in Items : RowStep(item[i], attempts[i], item'[i], attempts'[i])

LEMMA RowsStay ==
  ASSUME TypeOK, UNCHANGED <<item, attempts>>
  PROVE  MovesRows
<1>1. \A i \in Items : item'[i] = item[i] /\ attempts'[i] = attempts[i]
  OBVIOUS
<1>2. \A i \in Items : RowStep(item[i], attempts[i], item'[i], attempts'[i])
  BY <1>1 DEF RowStep
<1> QED
  BY <1>2 DEF TypeOK, MovesRows

LEMMA ExpiryMovesRows ==
  ASSUME TypeOK, ExpireLeases
  PROVE  MovesRows
<1>1. \A i \in Items : /\ attempts'[i] = Expired(attempts[i])
                       /\ item'[i] = Released(item[i], attempts[i])
  BY DEF ExpireLeases
<1>2. \A i \in Items : RowStep(item[i], attempts[i], item'[i], attempts'[i])
  BY <1>1 DEF RowStep, Expires
<1>3. DOMAIN item' = Items /\ item' = [i \in DOMAIN item' |-> item'[i]]
  BY DEF ExpireLeases
<1>4. DOMAIN attempts' = Items /\ attempts' = [i \in DOMAIN attempts' |-> attempts'[i]]
  BY DEF ExpireLeases
<1> QED
  BY <1>2, <1>3, <1>4 DEF MovesRows

LEMMA LapseMovesRows ==
  ASSUME TypeOK, NEW i \in Items, LeaseLapses(i)
  PROVE  MovesRows
<1>1. PICK n \in 1 .. Len(attempts[i]) :
        /\ attempts[i][n].status = "leased" /\ ~attempts[i][n].lapsed
        /\ attempts' = [attempts EXCEPT ![i][n].lapsed = TRUE]
  BY DEF LeaseLapses
<1>2. item' = item
  BY DEF LeaseLapses
<1>3. \A k \in Items : k # i => attempts'[k] = attempts[k]
  BY <1>1 DEF TypeOK
<1>4. attempts'[i] = [attempts[i] EXCEPT ![n].lapsed = TRUE]
  BY <1>1 DEF TypeOK
<1>5. Lapses(item[i], attempts[i], item'[i], attempts'[i], n)
  BY <1>1, <1>2, <1>4 DEF Lapses
<1>6. \A k \in Items : RowStep(item[k], attempts[k], item'[k], attempts'[k])
  BY <1>2, <1>3, <1>5 DEF RowStep
<1>7. DOMAIN attempts' = Items /\ attempts' = [k \in DOMAIN attempts' |-> attempts'[k]]
  BY <1>1 DEF TypeOK
<1> QED
  BY <1>2, <1>6, <1>7 DEF MovesRows, TypeOK

LEMMA ClaimMovesRows ==
  ASSUME TypeOK, NEW w \in Workers, ClaimBatch(w)
  PROVE  MovesRows
<1>1. ASSUME NEW i \in Items, i \in Batch(w)
      PROVE  IsClaimed(item[i], attempts[i], item'[i], attempts'[i], w)
  <2>1. Released(item[i], attempts[i]).status = "pending" /\ ~Excluded(Expired(attempts[i]), w)
    BY <1>1 DEF Batch, Eligible
  <2>2. /\ attempts'[i] = Append(Expired(attempts[i]), NewAttempt(w))
        /\ item'[i] = [Released(item[i], attempts[i]) EXCEPT
                         !.status = "leased", !.current = Len(attempts[i]) + 1]
    BY <1>1 DEF ClaimBatch
  <2> QED
    BY <2>1, <2>2 DEF IsClaimed
<1>2. ASSUME NEW i \in Items, i \notin Batch(w)
      PROVE  Expires(item[i], attempts[i], item'[i], attempts'[i])
  BY <1>2 DEF ClaimBatch, Expires
<1>3. \A i \in Items : RowStep(item[i], attempts[i], item'[i], attempts'[i])
  BY <1>1, <1>2 DEF RowStep
<1>4. DOMAIN item' = Items /\ item' = [i \in DOMAIN item' |-> item'[i]]
  BY DEF ClaimBatch
<1>5. DOMAIN attempts' = Items /\ attempts' = [i \in DOMAIN attempts' |-> attempts'[i]]
  BY DEF ClaimBatch
<1> QED
  BY <1>3, <1>4, <1>5 DEF MovesRows

LEMMA FinishMovesRows ==
  ASSUME TypeOK, NEW w \in Workers, NEW c \in worker[w].claims, Held(w, c),
         NEW outcome \in {"completed", "failed"},
         NEW status \in {"pending", "completed", "failed"}, NEW result \in {"none", "review"},
         (outcome = "completed") <=> (status = "completed"),
         (outcome = "completed") <=> (result = "review"),
         FinishClaim(c, outcome, status, result)
  PROVE  MovesRows
<1> DEFINE i == c[1]
           n == c[2]
<1>1. i \in Items
  BY DEF TypeOK, WorkerRecord, Claims
<1>2. n \in 1 .. Len(attempts[i])
        /\ attempts[i][n].status = "leased" /\ ~attempts[i][n].lapsed
  BY DEF Held, OwnRow
<1>3. attempts' = [attempts EXCEPT ![i][n].status = outcome]
  BY DEF FinishClaim
<1>4. item' = IF item[i].current = n
                THEN [item EXCEPT ![i] = [status |-> status, current |-> 0, result |-> result]]
                ELSE item
  BY DEF FinishClaim, UpdateItem
<1> HIDE DEF i, n
<1>5. attempts'[i] = [attempts[i] EXCEPT ![n].status = outcome]
  BY <1>1, <1>3 DEF TypeOK
<1>6. item'[i] = IF item[i].current = n
                   THEN [status |-> status, current |-> 0, result |-> result] ELSE item[i]
  BY <1>1, <1>4 DEF TypeOK
<1>7. Finishes(item[i], attempts[i], item'[i], attempts'[i], n)
  BY <1>2, <1>5, <1>6 DEF Finishes
<1>8. \A k \in Items : k # i => item'[k] = item[k] /\ attempts'[k] = attempts[k]
  BY <1>3, <1>4 DEF TypeOK
<1>9. \A k \in Items : RowStep(item[k], attempts[k], item'[k], attempts'[k])
  BY <1>2, <1>7, <1>8 DEF RowStep
<1>10. DOMAIN item' = Items /\ item' = [k \in DOMAIN item' |-> item'[k]]
  BY <1>4 DEF TypeOK
<1>11. DOMAIN attempts' = Items /\ attempts' = [k \in DOMAIN attempts' |-> attempts'[k]]
  BY <1>3 DEF TypeOK
<1> QED
  BY <1>9, <1>10, <1>11 DEF MovesRows

LEMMA ReopenMovesRows ==
  ASSUME TypeOK, NEW S \in SUBSET {i \in Items : item[i].status = "failed"},
         NEW row \in {[status |-> "pending", current |-> 0, result |-> "none"],
                      [status |-> "completed", current |-> 0, result |-> "unreviewable"]},
         item' = [i \in Items |-> IF i \in S THEN row ELSE item[i]], attempts' = attempts
  PROVE  MovesRows
<1>1. ASSUME NEW i \in Items, i \in S
      PROVE  Reopens(item[i], attempts[i], item'[i], attempts'[i])
  BY <1>1 DEF Reopens
<1>2. \A i \in Items : i \notin S => item'[i] = item[i] /\ attempts'[i] = attempts[i]
  OBVIOUS
<1>3. \A i \in Items : RowStep(item[i], attempts[i], item'[i], attempts'[i])
  BY <1>1, <1>2 DEF RowStep
<1> QED
  BY <1>3 DEF MovesRows, TypeOK

LEMMA StepMovesRows ==
  ASSUME TypeOK, [Next]_vars
  PROVE  MovesRows
<1>1. CASE UNCHANGED vars
  BY <1>1, RowsStay DEF vars
<1>2. ASSUME NEW w \in Workers, ClaimBatch(w)
      PROVE  MovesRows
  BY <1>2, ClaimMovesRows
<1>3. ASSUME NEW w \in Workers, Advance(w)
      PROVE  MovesRows
  <2>1. CASE ClaimRefused(w) \/ RenewClaim(w) \/ ClaimLost(w) \/ GiveUp(w)
    BY <2>1, RowsStay DEF ClaimRefused, RenewClaim, ClaimLost, GiveUp
  <2>2. CASE CountQueue(w)
    BY <2>2, ExpiryMovesRows DEF CountQueue
  <2>3. CASE CompleteClaim(w)
    <3>1. PICK c \in worker[w].claims :
            Held(w, c) /\ FinishClaim(c, "completed", "completed", "review")
      BY <2>3 DEF CompleteClaim
    <3> QED
      BY <3>1, FinishMovesRows
  <2>4. CASE FailClaim(w)
    <3>1. PICK c \in worker[w].claims :
            Held(w, c) /\ FinishClaim(c, "failed", AfterFailure(c), "none")
      BY <2>4 DEF FailClaim
    <3>2. AfterFailure(c) \in {"pending", "completed", "failed"} /\ AfterFailure(c) # "completed"
      BY DEF AfterFailure
    <3> QED
      BY <3>1, <3>2, FinishMovesRows
  <2>5. CASE EndpointFails(w)
    <3>1. PICK c \in worker[w].claims :
            IF Held(w, c) THEN FinishClaim(c, "failed", "pending", "none")
            ELSE UNCHANGED <<item, attempts>>
      BY <2>5 DEF EndpointFails
    <3> QED
      BY <3>1, FinishMovesRows, RowsStay
  <2>6. CASE ReturnUntouched(w)
    <3>1. PICK c \in worker[w].claims :
            Held(w, c) /\ FinishClaim(c, "failed", "pending", "none")
      BY <2>6 DEF ReturnUntouched
    <3> QED
      BY <3>1, FinishMovesRows
  <2> QED
    BY <1>3, <2>1, <2>2, <2>3, <2>4, <2>5, <2>6 DEF Advance
<1>4. ASSUME NEW w \in Workers, Start(w) \/ Unhealthy(w) \/ Crash(w)
      PROVE  MovesRows
  BY <1>4, RowsStay DEF Start, Unhealthy, Crash
<1>5. ASSUME NEW i \in Items, LeaseLapses(i)
      PROVE  MovesRows
  BY <1>5, LapseMovesRows
<1>6. CASE QueueStatus
  BY <1>6, ExpiryMovesRows DEF QueueStatus
<1>7. CASE RequeueFailures
  <2>1. PICK S \in SUBSET {i \in Items : item[i].status = "failed"} :
          item' = [i \in Items |->
            IF i \in S THEN [status |-> "pending", current |-> 0, result |-> "none"] ELSE item[i]]
    BY <1>7 DEF RequeueFailures
  <2> QED
    BY <1>7, <2>1, ReopenMovesRows DEF RequeueFailures
<1>8. CASE FinalizeFailures
  <2>1. PICK S \in SUBSET {i \in Items : item[i].status = "failed"} :
          item' = [i \in Items |->
            IF i \in S THEN [status |-> "completed", current |-> 0, result |-> "unreviewable"]
            ELSE item[i]]
    BY <1>8 DEF FinalizeFailures
  <2> QED
    BY <1>8, <2>1, ReopenMovesRows DEF FinalizeFailures
<1> QED
  BY <1>1, <1>2, <1>3, <1>4, <1>5, <1>6, <1>7, <1>8 DEF Next

-----------------------------------------------------------------------------
(* The worker processes stay typed.                                        *)

LEMMA DownTyped == Down \in WorkerRecord
BY DEF Down, WorkerRecord, Phases

LEMMA WorkerMoves ==
  ASSUME worker \in [Workers -> WorkerRecord], NEW w \in Workers, NEW p \in Phases,
         NEW C \in SUBSET Claims, worker' = [worker EXCEPT ![w] = [phase |-> p, claims |-> C]]
  PROVE  worker' \in [Workers -> WorkerRecord]
<1>1. [phase |-> p, claims |-> C] \in WorkerRecord
  BY DEF WorkerRecord
<1> QED
  BY <1>1

LEMMA GotoTyped ==
  ASSUME worker \in [Workers -> WorkerRecord], NEW w \in Workers, NEW p \in Phases, Goto(w, p)
  PROVE  worker' \in [Workers -> WorkerRecord]
<1>1. worker[w] \in WorkerRecord
  OBVIOUS
<1>2. [worker[w] EXCEPT !.phase = p] \in WorkerRecord
  BY <1>1 DEF WorkerRecord
<1>3. worker' = [worker EXCEPT ![w] = [worker[w] EXCEPT !.phase = p]]
  BY DEF Goto
<1> QED
  BY <1>2, <1>3

LEMMA StepTypesWorker ==
  ASSUME TypeOK, [Next]_vars
  PROVE  worker' \in [Workers -> WorkerRecord]
<1>1. worker \in [Workers -> WorkerRecord]
  BY DEF TypeOK
<1>2. \A w \in Workers : worker[w].claims \subseteq Claims
  BY <1>1 DEF WorkerRecord
<1>3. ASSUME NEW w \in Workers, Exit(w)
      PROVE  worker' \in [Workers -> WorkerRecord]
  BY <1>1, <1>3, DownTyped DEF Exit
<1>4. ASSUME NEW w \in Workers, NEW c, Proceed(w, c)
      PROVE  worker' \in [Workers -> WorkerRecord]
  <2> DEFINE left == worker[w].claims \ {c}
             p == IF left = {} THEN "polling" ELSE "working"
  <2>1. p \in Phases /\ left \in SUBSET Claims
    BY <1>2 DEF Phases
  <2>2. worker' = [worker EXCEPT ![w] = [phase |-> p, claims |-> left]]
    BY <1>4 DEF Proceed
  <2> HIDE DEF p, left
  <2> QED
    BY <1>1, <2>1, <2>2, WorkerMoves
<1>5. ASSUME NEW w \in Workers, ClaimBatch(w)
      PROVE  worker' \in [Workers -> WorkerRecord]
  <2> DEFINE C == {<<i, Len(attempts[i]) + 1>> : i \in Batch(w)}
  <2>1. Batch(w) \subseteq Items
    BY DEF Batch, Eligible
  <2>2. \A i \in Items : Len(attempts[i]) + 1 \in Nat \ {0}
    <3> SUFFICES ASSUME NEW i \in Items PROVE Len(attempts[i]) + 1 \in Nat \ {0}
      OBVIOUS
    <3>1. Len(attempts[i]) \in Nat
      BY LenProperties DEF TypeOK
    <3> QED
      BY <3>1
  <2>3. C \in SUBSET Claims
    BY <2>1, <2>2 DEF Claims
  <2>4. worker' = [worker EXCEPT ![w] = [phase |-> "counting", claims |-> C]]
    BY <1>5 DEF ClaimBatch
  <2>5. "counting" \in Phases
    BY DEF Phases
  <2> HIDE DEF C
  <2> QED
    BY <1>1, <2>3, <2>4, <2>5, WorkerMoves
<1>6. ASSUME NEW w \in Workers, Advance(w)
      PROVE  worker' \in [Workers -> WorkerRecord]
  <2>1. CASE ClaimRefused(w) \/ GiveUp(w)
    BY <1>3, <2>1 DEF ClaimRefused, GiveUp
  <2>2. CASE CountQueue(w)
    <3> DEFINE p == IF worker[w].claims # {} THEN "working"
                    ELSE IF Unfinished THEN "polling" ELSE "finished"
    <3>1. p \in Phases
      BY DEF Phases
    <3>2. Goto(w, p)
      BY <2>2 DEF CountQueue
    <3> HIDE DEF p
    <3> QED
      BY <1>1, <3>1, <3>2, GotoTyped
  <2>3. CASE RenewClaim(w)
    BY <1>1, <2>3, GotoTyped DEF RenewClaim, Phases
  <2>4. CASE CompleteClaim(w) \/ FailClaim(w) \/ ClaimLost(w)
    BY <1>4, <2>4 DEF CompleteClaim, FailClaim, ClaimLost
  <2>5. CASE EndpointFails(w)
    <3>1. PICK c \in worker[w].claims :
            worker' = [worker EXCEPT ![w] = [phase |-> "returning",
                                             claims |-> worker[w].claims \ {c}]]
      BY <2>5, <1>1 DEF EndpointFails, WorkerRecord
    <3>2. "returning" \in Phases /\ worker[w].claims \ {c} \in SUBSET Claims
      BY <1>2 DEF Phases
    <3> QED
      BY <1>1, <3>1, <3>2, WorkerMoves
  <2>6. CASE ReturnUntouched(w)
    <3>1. PICK c \in worker[w].claims :
            worker' = [worker EXCEPT ![w] = [worker[w] EXCEPT !.claims = worker[w].claims \ {c}]]
      BY <2>6 DEF ReturnUntouched
    <3>2. [worker[w] EXCEPT !.claims = worker[w].claims \ {c}] \in WorkerRecord
      BY <1>1 DEF WorkerRecord
    <3> QED
      BY <1>1, <3>1, <3>2
  <2> QED
    BY <1>6, <2>1, <2>2, <2>3, <2>4, <2>5, <2>6 DEF Advance
<1>7. ASSUME NEW w \in Workers, Start(w) \/ Unhealthy(w) \/ Crash(w)
      PROVE  worker' \in [Workers -> WorkerRecord]
  BY <1>1, <1>3, <1>7, GotoTyped DEF Start, Unhealthy, Crash, Phases
<1>8. CASE \/ \E i \in Items : LeaseLapses(i)
           \/ QueueStatus \/ RequeueFailures \/ FinalizeFailures \/ UNCHANGED vars
  BY <1>1, <1>8 DEF LeaseLapses, QueueStatus, RequeueFailures, FinalizeFailures, vars
<1> QED
  BY <1>5, <1>6, <1>7, <1>8 DEF Next

-----------------------------------------------------------------------------
(* The inductive invariant.                                                *)

RowsAgree == \A i \in Items : Agree(item[i], attempts[i])
IInv      == TypeOK /\ RowsAgree

LEMMA InitAgrees == Init => IInv
<1> SUFFICES ASSUME Init PROVE IInv
  OBVIOUS
<1>1. item \in [Items -> ItemRecord]
  BY DEF Init, ItemRecord, ItemStatuses
<1>2. <<>> \in Seq(AttemptRecord) /\ Len(<<>>) = 0
  OBVIOUS
<1>3. attempts \in [Items -> Seq(AttemptRecord)]
  BY <1>2 DEF Init
<1>4. worker \in [Workers -> WorkerRecord]
  BY DownTyped DEF Init
<1>5. ASSUME NEW i \in Items PROVE Agree(item[i], attempts[i])
  <2>1. item[i] = [status |-> "pending", current |-> 0, result |-> "none"]
    BY DEF Init
  <2>2. attempts[i] = <<>>
    BY DEF Init
  <2>3. Len(attempts[i]) = 0
    BY <1>2, <2>2
  <2> QED
    BY <2>1, <2>3 DEF Agree
<1> QED
  BY <1>1, <1>3, <1>4, <1>5 DEF IInv, TypeOK, RowsAgree

LEMMA StepAgrees == IInv /\ [Next]_vars => IInv'
<1> SUFFICES ASSUME IInv, [Next]_vars PROVE IInv'
  OBVIOUS
<1>1. MovesRows
  BY StepMovesRows DEF IInv
<1>2. \A i \in Items : Typed(item[i], attempts[i]) /\ Agree(item[i], attempts[i])
  BY DEF IInv, TypeOK, RowsAgree, Typed
<1>3. \A i \in Items : Typed(item'[i], attempts'[i]) /\ Agree(item'[i], attempts'[i])
  BY <1>1, <1>2, RowStepAgrees DEF MovesRows
<1>4. item' \in [Items -> ItemRecord]
  BY <1>1, <1>3 DEF MovesRows, Typed
<1>5. attempts' \in [Items -> Seq(AttemptRecord)]
  BY <1>1, <1>3 DEF MovesRows, Typed
<1>6. worker' \in [Workers -> WorkerRecord]
  BY StepTypesWorker DEF IInv
<1>7. TypeOK'
  BY <1>4, <1>5, <1>6 DEF TypeOK
<1>8. RowsAgree'
  BY <1>3 DEF RowsAgree
<1> QED
  BY <1>7, <1>8 DEF IInv

LEMMA Invariance == Spec => []IInv
BY InitAgrees, StepAgrees, PTL DEF Spec

(* The rows and the processes keep their types: in particular an item      *)
(* never takes a status that the ledger's CHECK constraints refuse.        *)
THEOREM QueueTypeCorrect == Spec => []TypeOK
<1>1. IInv => TypeOK
  BY DEF IInv
<1> QED
  BY <1>1, Invariance, PTL

(* A lease is an item's current attempt and nothing else: for any number   *)
(* of workers, no two hold one item.                                       *)
THEOREM OneLeaseCorrect == Spec => []OneLease
<1>1. IInv => OneLease
  BY DEF IInv, RowsAgree, Agree, OneLease, LeaseIsCurrent
<1> QED
  BY <1>1, Invariance, PTL

(* An item's result is that of its one completed attempt.                  *)
THEOREM OneResultCorrect == Spec => []OneResult
<1>1. ASSUME IInv, NEW i \in Items PROVE ResultOf(i)
  <2>1. Agree(item[i], attempts[i])
    BY <1>1 DEF IInv, RowsAgree
  <2> DEFINE done == {n \in 1 .. Len(attempts[i]) : attempts[i][n].status = "completed"}
  <2>2. item[i].result = "review" <=> done # {}
    BY <2>1 DEF Agree
  <2>3. \A m, n \in done : m = n
    BY <2>1 DEF Agree
  <2> QED
    BY <2>1, <2>2, <2>3 DEF Agree, ResultOf
<1>2. IInv => OneResult
  BY <1>1 DEF OneResult
<1> QED
  BY <1>2, Invariance, PTL

(* No worker makes two attempts on one item.                               *)
THEOREM OncePerWorkerCorrect == Spec => []OncePerWorker
<1>1. IInv => OncePerWorker
  BY DEF IInv, RowsAgree, Agree, OncePerWorker, EachOnce
<1> QED
  BY <1>1, Invariance, PTL

-----------------------------------------------------------------------------
(* The audit table.                                                        *)

LEMMA RowStepKeepsAttempts ==
  ASSUME NEW it, NEW tries, NEW it2, NEW tries2,
         Typed(it, tries), RowStep(it, tries, it2, tries2)
  PROVE  /\ Len(tries2) >= Len(tries)
         /\ \A n \in 1 .. Len(tries) : tries[n].status # "leased" => tries2[n] = tries[n]
<1>1. Len(tries) \in Nat /\ tries \in Seq(AttemptRecord)
        /\ \A n \in 1 .. Len(tries) : tries[n] \in AttemptRecord
  BY LenProperties DEF Typed
<1>2. CASE it2 = it /\ tries2 = tries
  BY <1>1, <1>2
<1>3. /\ Expired(tries) \in Seq(AttemptRecord) /\ Len(Expired(tries)) = Len(tries)
      /\ \A n \in 1 .. Len(tries) :
           tries[n].status # "leased" => Expired(tries)[n] = tries[n]
  BY <1>1, ExpiredRows DEF Lapsed
<1>4. CASE Expires(it, tries, it2, tries2)
  BY <1>1, <1>3, <1>4 DEF Expires
<1>5. ASSUME NEW w \in Workers, IsClaimed(it, tries, it2, tries2, w)
      PROVE  /\ Len(tries2) >= Len(tries)
             /\ \A n \in 1 .. Len(tries) : tries[n].status # "leased" => tries2[n] = tries[n]
  <2>1. NewAttempt(w) \in AttemptRecord
    BY DEF NewAttempt, AttemptRecord, AttemptStatuses
  <2>2. /\ Len(tries2) = Len(tries) + 1
        /\ \A n \in 1 .. Len(tries) : tries2[n] = Expired(tries)[n]
    BY <1>3, <1>5, <2>1, AddedAttempt DEF IsClaimed
  <2> QED
    BY <1>1, <1>3, <2>2
<1>6. ASSUME NEW n \in 1 .. Len(tries), NEW a \in AttemptRecord,
             tries[n].status = "leased", tries2 = [tries EXCEPT ![n] = a]
      PROVE  /\ Len(tries2) >= Len(tries)
             /\ \A m \in 1 .. Len(tries) : tries[m].status # "leased" => tries2[m] = tries[m]
  BY <1>1, <1>6, ChangedAttempt
<1>7. ASSUME NEW n \in 1 .. Len(tries),
             Lapses(it, tries, it2, tries2, n) \/ Finishes(it, tries, it2, tries2, n)
      PROVE  /\ Len(tries2) >= Len(tries)
             /\ \A m \in 1 .. Len(tries) : tries[m].status # "leased" => tries2[m] = tries[m]
  <2>1. CASE Lapses(it, tries, it2, tries2, n)
    <3>1. [tries[n] EXCEPT !.lapsed = TRUE] \in AttemptRecord
      BY <1>1 DEF AttemptRecord
    <3> QED
      BY <1>6, <2>1, <3>1 DEF Lapses
  <2>2. CASE Finishes(it, tries, it2, tries2, n)
    <3>1. PICK outcome \in {"completed", "failed"} :
            tries2 = [tries EXCEPT ![n].status = outcome]
      BY <2>2 DEF Finishes
    <3>2. [tries[n] EXCEPT !.status = outcome] \in AttemptRecord
      BY <1>1 DEF AttemptRecord, AttemptStatuses
    <3> QED
      BY <1>6, <2>2, <3>1, <3>2 DEF Finishes
  <2> QED
    BY <1>7, <2>1, <2>2
<1>8. CASE Reopens(it, tries, it2, tries2)
  BY <1>1, <1>8 DEF Reopens
<1> QED
  BY <1>2, <1>4, <1>5, <1>7, <1>8 DEF RowStep

(* Attempts are never removed, and one that ended stays as it ended: no    *)
(* stale worker submits after losing its lease.                            *)
THEOREM AttemptsRemainCorrect == Spec => AttemptsRemain
<1> DEFINE Kept == \A i \in Items : \A n \in 1 .. Len(attempts[i]) :
                     /\ Len(attempts'[i]) >= Len(attempts[i])
                     /\ attempts[i][n].status # "leased" => attempts'[i][n] = attempts[i][n]
<1>1. IInv /\ [Next]_vars => [Kept]_vars
  <2> SUFFICES ASSUME IInv, [Next]_vars PROVE Kept
    OBVIOUS
  <2>1. MovesRows
    BY StepMovesRows DEF IInv
  <2>2. \A i \in Items : Typed(item[i], attempts[i])
    BY DEF IInv, TypeOK, Typed
  <2> QED
    BY <2>1, <2>2, RowStepKeepsAttempts DEF MovesRows
<1> QED
  BY <1>1, Invariance, PTL DEF Spec, AttemptsRemain

-----------------------------------------------------------------------------
(* Batches.                                                                *)

(* A lease that has not run out, and the claims of a worker that hold one. *)
Good(a)        == a.status = "leased" /\ ~a.lapsed
GoodOf(w, i)   == {n \in 1 .. Len(attempts[i]) : attempts[i][n].worker = w /\ Good(attempts[i][n])}

(* From claim to next claim, each good lease of a worker is one of the     *)
(* claims in its hands; a worker about to claim again has none in hand.    *)
Batching  == {"polling", "counting", "working", "asking"}
InHand(w) ==
  /\ In(w, {"polling"}) => worker[w].claims = {}
  /\ In(w, Batching) =>
       \A i \in Items : \A n \in GoodOf(w, i) : <<i, n>> \in worker[w].claims
AllInHand == \A w \in Workers : InHand(w)

(* No good lease appears but by a claim.                                   *)
OnlyOld(i) ==
  \A n \in 1 .. Len(attempts'[i]) : Good(attempts'[i][n]) =>
    /\ n \in 1 .. Len(attempts[i]) /\ Good(attempts[i][n])
    /\ attempts'[i][n].worker = attempts[i][n].worker

LEMMA ExpiredOnlyOld ==
  ASSUME NEW tries \in Seq(AttemptRecord), NEW n \in 1 .. Len(Expired(tries)),
         Good(Expired(tries)[n])
  PROVE  n \in 1 .. Len(tries) /\ Good(tries[n]) /\ Expired(tries)[n].worker = tries[n].worker
BY ExpiredRows DEF Good, Lapsed

LEMMA ChangedOnlyOld ==
  ASSUME TypeOK, NEW i \in Items, NEW n \in 1 .. Len(attempts[i]), NEW a \in AttemptRecord,
         Good(a) => Good(attempts[i][n]) /\ a.worker = attempts[i][n].worker,
         attempts' = [attempts EXCEPT ![i] = [attempts[i] EXCEPT ![n] = a]]
  PROVE  \A k \in Items : OnlyOld(k)
<1>1. attempts[i] \in Seq(AttemptRecord) /\ attempts \in [Items -> Seq(AttemptRecord)]
  BY DEF TypeOK
<1>2. /\ Len([attempts[i] EXCEPT ![n] = a]) = Len(attempts[i])
      /\ \A m \in 1 .. Len(attempts[i]) :
           [attempts[i] EXCEPT ![n] = a][m] = IF m = n THEN a ELSE attempts[i][m]
  BY <1>1, ChangedAttempt
<1>3. OnlyOld(i)
  BY <1>1, <1>2 DEF OnlyOld
<1>4. \A k \in Items : k # i => attempts'[k] = attempts[k]
  BY <1>1
<1> QED
  BY <1>3, <1>4 DEF OnlyOld

(* A finished claim is no lease any more.                                  *)
LEMMA FinishEndsLease ==
  ASSUME TypeOK, NEW w \in Workers, NEW c \in worker[w].claims, Held(w, c),
         NEW outcome \in {"completed", "failed"}, NEW status, NEW result,
         FinishClaim(c, outcome, status, result)
  PROVE  /\ \A k \in Items : OnlyOld(k)
         /\ ~Good(attempts'[c[1]][c[2]])
<1> DEFINE i == c[1]
           n == c[2]
           a == [attempts[i][n] EXCEPT !.status = outcome]
<1>1. i \in Items /\ n \in 1 .. Len(attempts[i])
  BY DEF TypeOK, WorkerRecord, Claims, Held, OwnRow
<1>2. attempts[i][n] \in AttemptRecord /\ attempts \in [Items -> Seq(AttemptRecord)]
  BY <1>1, LenProperties DEF TypeOK
<1>3. a \in AttemptRecord /\ ~Good(a)
  BY <1>2 DEF AttemptRecord, AttemptStatuses, Good
<1>4. attempts' = [attempts EXCEPT ![i] = [attempts[i] EXCEPT ![n] = a]]
  BY <1>2 DEF FinishClaim
<1> HIDE DEF i, n, a
<1>5. attempts'[i][n] = a
  BY <1>1, <1>2, <1>3, <1>4, ChangedAttempt
<1>6. \A k \in Items : OnlyOld(k)
  BY <1>1, <1>3, <1>4, ChangedOnlyOld
<1> QED
  BY <1>3, <1>5, <1>6 DEF i, n

LEMMA ExpiryOnlyOld ==
  ASSUME TypeOK, ExpireLeases PROVE \A i \in Items : OnlyOld(i)
<1> SUFFICES ASSUME NEW i \in Items PROVE OnlyOld(i)
  OBVIOUS
<1>1. attempts[i] \in Seq(AttemptRecord) /\ attempts'[i] = Expired(attempts[i])
  BY DEF TypeOK, ExpireLeases
<1> QED
  BY <1>1, ExpiredOnlyOld DEF OnlyOld

LEMMA LapseOnlyOld ==
  ASSUME TypeOK, NEW k \in Items, LeaseLapses(k) PROVE \A i \in Items : OnlyOld(i)
<1>1. PICK n \in 1 .. Len(attempts[k]) : attempts' = [attempts EXCEPT ![k][n].lapsed = TRUE]
  BY DEF LeaseLapses
<1> DEFINE a == [attempts[k][n] EXCEPT !.lapsed = TRUE]
<1>2. attempts[k][n] \in AttemptRecord /\ attempts \in [Items -> Seq(AttemptRecord)]
  BY <1>1, LenProperties DEF TypeOK
<1>3. a \in AttemptRecord /\ ~Good(a)
  BY <1>2 DEF AttemptRecord, Good
<1>4. attempts' = [attempts EXCEPT ![k] = [attempts[k] EXCEPT ![n] = a]]
  BY <1>1, <1>2
<1> HIDE DEF a
<1> QED
  BY <1>1, <1>3, <1>4, ChangedOnlyOld

(* What another process, the clock, or the operator does to the rows takes *)
(* no claim out of a worker's hands and gives it no lease.                 *)
LEMMA OthersKeepHand ==
  ASSUME NEW w \in Workers, InHand(w), \A i \in Items : OnlyOld(i), worker'[w] = worker[w]
  PROVE  InHand(w)'
BY DEF InHand, In, GoodOf, OnlyOld

(* The claim the worker is done with is the only one it may have held.     *)
LEMMA ProceedKeepsHand ==
  ASSUME TypeOK, NEW w \in Workers, InHand(w), \A i \in Items : OnlyOld(i),
         In(w, {"working", "asking"}), NEW c \in worker[w].claims, Proceed(w, c),
         c[2] \notin GoodOf(w, c[1])'
  PROVE  InHand(w)'
<1> DEFINE left == worker[w].claims \ {c}
<1>1. /\ worker'[w].claims = left
      /\ worker'[w].phase = IF left = {} THEN "polling" ELSE "working"
  BY DEF TypeOK, Proceed
<1>2. ASSUME NEW i \in Items, NEW n \in GoodOf(w, i)' PROVE <<i, n>> \in left
  <2>1. n \in GoodOf(w, i)
    BY DEF GoodOf, OnlyOld
  <2>2. <<i, n>> \in worker[w].claims
    BY <2>1 DEF InHand, In, Batching
  <2>3. <<i, n>> # c
    OBVIOUS
  <2> QED
    BY <2>2, <2>3
<1> HIDE DEF left
<1> QED
  BY <1>1, <1>2 DEF InHand, In

LEMMA ClaimFillsHand ==
  ASSUME TypeOK, NEW w \in Workers, ClaimBatch(w), AllInHand PROVE AllInHand'
<1> SUFFICES ASSUME NEW u \in Workers PROVE InHand(u)'
  BY DEF AllInHand
<1>1. ASSUME NEW i \in Items, NEW n \in 1 .. Len(attempts'[i]), Good(attempts'[i][n])
      PROVE  \/ /\ n \in 1 .. Len(attempts[i]) /\ Good(attempts[i][n])
                /\ attempts'[i][n].worker = attempts[i][n].worker
             \/ i \in Batch(w) /\ n = Len(attempts[i]) + 1 /\ attempts'[i][n].worker = w
  <2>1. attempts[i] \in Seq(AttemptRecord) /\ Len(attempts[i]) \in Nat
    BY LenProperties DEF TypeOK
  <2>2. Expired(attempts[i]) \in Seq(AttemptRecord) /\ Len(Expired(attempts[i])) = Len(attempts[i])
    BY <2>1, ExpiredRows
  <2>3. CASE i \notin Batch(w)
    <3>1. attempts'[i] = Expired(attempts[i])
      BY <2>3 DEF ClaimBatch
    <3> QED
      BY <1>1, <2>1, <3>1, ExpiredOnlyOld
  <2>4. CASE i \in Batch(w)
    <3>1. attempts'[i] = Append(Expired(attempts[i]), NewAttempt(w))
      BY <2>4 DEF ClaimBatch
    <3>2. NewAttempt(w) \in AttemptRecord /\ NewAttempt(w).worker = w
      BY DEF NewAttempt, AttemptRecord, AttemptStatuses
    <3>3. /\ Len(attempts'[i]) = Len(attempts[i]) + 1
          /\ attempts'[i][Len(attempts[i]) + 1] = NewAttempt(w)
          /\ \A m \in 1 .. Len(attempts[i]) : attempts'[i][m] = Expired(attempts[i])[m]
      BY <2>2, <3>1, <3>2, AddedAttempt
    <3>4. n = Len(attempts[i]) + 1 \/ n \in 1 .. Len(Expired(attempts[i]))
      BY <2>1, <2>2, <3>3
    <3>5. CASE n = Len(attempts[i]) + 1
      BY <2>4, <3>2, <3>3, <3>5
    <3>6. CASE n \in 1 .. Len(Expired(attempts[i]))
      <4>1. attempts'[i][n] = Expired(attempts[i])[n]
        BY <2>2, <3>3, <3>6
      <4> QED
        BY <1>1, <2>1, <3>6, <4>1, ExpiredOnlyOld
    <3> QED
      BY <3>4, <3>5, <3>6
  <2> QED
    BY <2>3, <2>4
<1>2. CASE u = w
  <2>1. /\ worker'[w].phase = "counting"
        /\ worker'[w].claims = {<<i, Len(attempts[i]) + 1>> : i \in Batch(w)}
    BY DEF TypeOK, ClaimBatch
  <2>2. ASSUME NEW i \in Items, NEW n \in GoodOf(w, i)' PROVE <<i, n>> \in worker'[w].claims
    <3>1. n \in 1 .. Len(attempts'[i]) /\ Good(attempts'[i][n]) /\ attempts'[i][n].worker = w
      BY <2>2 DEF GoodOf, Good
    <3>2. ~(/\ n \in 1 .. Len(attempts[i]) /\ Good(attempts[i][n])
            /\ attempts[i][n].worker = w)
      BY DEF ClaimBatch, ActiveLease, Good
    <3>3. i \in Batch(w) /\ n = Len(attempts[i]) + 1
      BY <1>1, <3>1, <3>2
    <3> QED
      BY <2>1, <3>3
  <2> QED
    BY <1>2, <2>1, <2>2 DEF InHand, In
<1>3. CASE u # w
  <2>1. worker'[u] = worker[u]
    BY <1>3 DEF TypeOK, ClaimBatch
  <2>2. ASSUME NEW i \in Items, NEW n \in GoodOf(u, i)' PROVE n \in GoodOf(u, i)
    <3>1. n \in 1 .. Len(attempts'[i]) /\ Good(attempts'[i][n]) /\ attempts'[i][n].worker = u
      BY <2>2 DEF GoodOf, Good
    <3> QED
      BY <1>1, <1>3, <3>1 DEF GoodOf
  <2> QED
    BY <2>1, <2>2 DEF AllInHand, InHand, In
<1> QED
  BY <1>2, <1>3

(* A worker's own step.                                                    *)
LEMMA AdvanceKeepsHand ==
  ASSUME TypeOK, NEW w \in Workers, Advance(w), AllInHand PROVE AllInHand'
<1>1. InHand(w) /\ worker \in [Workers -> WorkerRecord]
  BY DEF AllInHand, TypeOK
<1>2. ASSUME NEW u \in Workers \ {w} PROVE worker'[u] = worker[u]
  BY <1>1 DEF Advance, ClaimRefused, CountQueue, RenewClaim, CompleteClaim, FailClaim, ClaimLost,
              EndpointFails, ReturnUntouched, GiveUp, Exit, Goto, Proceed
<1>3. ASSUME \A i \in Items : OnlyOld(i), InHand(w)' PROVE AllInHand'
  BY <1>2, <1>3, OthersKeepHand DEF AllInHand
<1>4. attempts' = attempts => \A i \in Items : OnlyOld(i)
  BY DEF OnlyOld
<1>5. worker'[w].phase \notin Batching => InHand(w)'
  BY DEF InHand, In, Batching
<1>6. \A c \in worker[w].claims : c[1] \in Items /\ c[2] \in Nat
  BY <1>1 DEF WorkerRecord, Claims
<1>7. CASE ClaimRefused(w) \/ GiveUp(w)
  <2>1. attempts' = attempts /\ worker'[w].phase = "down"
    BY <1>1, <1>7 DEF ClaimRefused, GiveUp, Exit, Down
  <2> QED
    BY <1>3, <1>4, <1>5, <2>1 DEF Batching
<1>8. CASE CountQueue(w)
  <2>1. \A i \in Items : OnlyOld(i)
    BY <1>8, ExpiryOnlyOld DEF CountQueue
  <2>2. /\ In(w, {"counting"}) /\ worker'[w].claims = worker[w].claims
        /\ worker'[w].phase = "polling" => worker[w].claims = {}
    BY <1>1, <1>8 DEF CountQueue, Goto, WorkerRecord
  <2>3. InHand(w)'
    BY <1>1, <2>1, <2>2 DEF InHand, In, Batching, GoodOf, OnlyOld
  <2> QED
    BY <1>3, <2>1, <2>3
<1>9. CASE RenewClaim(w)
  <2>1. /\ attempts' = attempts /\ In(w, {"working"})
        /\ worker'[w].phase = "asking" /\ worker'[w].claims = worker[w].claims
    BY <1>1, <1>9 DEF RenewClaim, Goto, WorkerRecord
  <2>2. InHand(w)'
    BY <1>1, <2>1 DEF InHand, In, Batching, GoodOf
  <2> QED
    BY <1>3, <1>4, <2>1, <2>2
<1>10. CASE CompleteClaim(w) \/ FailClaim(w)
  <2>1. In(w, {"working", "asking"})
    BY <1>10 DEF CompleteClaim, FailClaim, In
  <2>2. PICK c \in worker[w].claims, outcome \in {"completed", "failed"} :
          /\ Held(w, c) /\ Proceed(w, c)
          /\ \E status, result : FinishClaim(c, outcome, status, result)
    BY <1>10 DEF CompleteClaim, FailClaim
  <2>3. (\A i \in Items : OnlyOld(i)) /\ ~Good(attempts'[c[1]][c[2]])
    BY <2>2, FinishEndsLease
  <2>4. c[2] \notin GoodOf(w, c[1])'
    BY <2>3 DEF GoodOf, Good
  <2> QED
    BY <1>1, <1>3, <2>1, <2>2, <2>3, <2>4, ProceedKeepsHand
<1>11. CASE ClaimLost(w)
  <2>1. PICK c \in worker[w].claims : ~Held(w, c) /\ Proceed(w, c)
    BY <1>11 DEF ClaimLost
  <2>2. attempts' = attempts /\ In(w, {"working", "asking"})
    BY <1>11 DEF ClaimLost
  <2>3. c[2] \notin GoodOf(w, c[1])'
    BY <2>1, <2>2 DEF GoodOf, Good, Held, OwnRow
  <2> QED
    BY <1>1, <1>3, <1>4, <2>1, <2>2, <2>3, ProceedKeepsHand
<1>12. CASE EndpointFails(w) \/ ReturnUntouched(w)
  <2>1. worker'[w].phase = "returning"
    BY <1>1, <1>12 DEF EndpointFails, ReturnUntouched, In, WorkerRecord
  <2>2. PICK c \in worker[w].claims :
          \/ Held(w, c) /\ FinishClaim(c, "failed", "pending", "none")
          \/ attempts' = attempts
    BY <1>12 DEF EndpointFails, ReturnUntouched
  <2>3. \A i \in Items : OnlyOld(i)
    BY <1>4, <2>2, FinishEndsLease
  <2> QED
    BY <1>3, <1>5, <2>1, <2>3 DEF Batching
<1> QED
  BY <1>7, <1>8, <1>9, <1>10, <1>11, <1>12 DEF Advance

LEMMA HandStep == TypeOK /\ AllInHand /\ [Next]_vars => AllInHand'
<1> SUFFICES ASSUME TypeOK, AllInHand, [Next]_vars PROVE AllInHand'
  OBVIOUS
<1>1. ASSUME \A i \in Items : OnlyOld(i), worker' = worker PROVE AllInHand'
  BY <1>1, OthersKeepHand DEF AllInHand
<1>2. attempts' = attempts => \A i \in Items : OnlyOld(i)
  BY DEF OnlyOld
<1>3. ASSUME NEW w \in Workers, Start(w) \/ Unhealthy(w) \/ Crash(w) PROVE AllInHand'
  <2>1. attempts' = attempts /\ \A u \in Workers \ {w} : worker'[u] = worker[u]
    BY <1>3 DEF Start, Unhealthy, Crash, Goto, Exit, TypeOK
  <2>2. worker'[w].phase \in {"starting", "down"}
    BY <1>3 DEF Start, Unhealthy, Crash, Goto, Exit, Down, TypeOK, WorkerRecord
  <2>3. InHand(w)'
    BY <2>2 DEF InHand, In, Batching
  <2> QED
    BY <1>2, <2>1, <2>3, OthersKeepHand DEF AllInHand
<1>4. CASE \E i \in Items : LeaseLapses(i)
  BY <1>1, <1>4, LapseOnlyOld DEF LeaseLapses
<1>5. CASE QueueStatus
  BY <1>1, <1>5, ExpiryOnlyOld DEF QueueStatus
<1>6. CASE RequeueFailures \/ FinalizeFailures \/ UNCHANGED vars
  BY <1>1, <1>2, <1>6 DEF RequeueFailures, FinalizeFailures, vars
<1> QED
  BY <1>3, <1>4, <1>5, <1>6, ClaimFillsHand, AdvanceKeepsHand DEF Next

(* A worker that comes to claim its next batch has given up every lease of *)
(* the last one: it is refused only over a process of its own that died.   *)
THEOREM BatchCorrect == Spec => []BatchGivenUp
<1>1. Init => AllInHand
  BY DEF Init, Down, AllInHand, InHand, In, Batching
<1>2. AllInHand => BatchGivenUp
  BY DEF AllInHand, InHand, In, Batching, GoodOf, Good, ActiveLease, BatchGivenUp
<1> QED
  BY <1>1, <1>2, HandStep, QueueTypeCorrect, PTL DEF Spec

-----------------------------------------------------------------------------
(* The promise.                                                            *)

(* What ReviewPromise lets one step do to an item, said of its rows.       *)
Keeps(it, tries, it2, tries2) ==
  /\ Owner(it2, tries2) = Owner(it, tries) /\ (IsLost(it2, tries2) <=> IsLost(it, tries))
  /\ TriedBy(tries2) = TriedBy(tries) /\ Outcome(it2) = Outcome(it)

Takes(it, tries, it2, tries2, w) ==
  /\ Outcome(it) = "open" /\ Outcome(it2) = "open" /\ w \notin TriedBy(tries)
  /\ Owner(it, tries) = Nobody \/ IsLost(it, tries)
  /\ Owner(it2, tries2) = w /\ ~IsLost(it2, tries2)
  /\ TriedBy(tries2) = TriedBy(tries) \cup {w}

GivesBack(it, tries, it2, tries2) ==
  /\ Outcome(it) = "open" /\ Outcome(it2) = "open" /\ Owner(it, tries) # Nobody
  /\ Owner(it2, tries2) = Nobody /\ ~IsLost(it2, tries2)
  /\ TriedBy(tries2) = TriedBy(tries)

Loses(it, tries, it2, tries2) ==
  /\ Outcome(it) = "open" /\ Outcome(it2) = "open"
  /\ Owner(it, tries) # Nobody /\ ~IsLost(it, tries)
  /\ Owner(it2, tries2) = Owner(it, tries) /\ IsLost(it2, tries2)
  /\ TriedBy(tries2) = TriedBy(tries)

Decides(it, tries, it2, tries2) ==
  /\ Outcome(it) = "open" /\ Outcome(it2) \in {"reviewed", "failed"}
  /\ Owner(it, tries) # Nobody /\ ~IsLost(it, tries)
  /\ Owner(it2, tries2) = Nobody /\ ~IsLost(it2, tries2)
  /\ TriedBy(tries2) = TriedBy(tries)

ReopensOrCloses(it, tries, it2, tries2) ==
  /\ Outcome(it) = "failed" /\ Outcome(it2) \in {"open", "unreviewable"}
  /\ Owner(it2, tries2) = Owner(it, tries) /\ (IsLost(it2, tries2) <=> IsLost(it, tries))
  /\ TriedBy(tries2) = TriedBy(tries)

PromisedStep(it, tries, it2, tries2) ==
  \/ Keeps(it, tries, it2, tries2) \/ GivesBack(it, tries, it2, tries2)
  \/ Loses(it, tries, it2, tries2) \/ Decides(it, tries, it2, tries2)
  \/ ReopensOrCloses(it, tries, it2, tries2)
  \/ \E w \in Workers : Takes(it, tries, it2, tries2, w)

(* Same length, same workers: same set of workers that tried.              *)
LEMMA SameTried ==
  ASSUME NEW tries, NEW tries2, Len(tries2) = Len(tries),
         \A n \in 1 .. Len(tries) : tries2[n].worker = tries[n].worker
  PROVE  TriedBy(tries2) = TriedBy(tries)
BY DEF TriedBy

(* An item that is leased is open, and its owner is a worker.              *)
LEMMA LeasedIsOwned ==
  ASSUME NEW it, NEW tries, Typed(it, tries), Agree(it, tries), it.current # 0
  PROVE  /\ it.status = "leased" /\ it.current \in 1 .. Len(tries)
         /\ Outcome(it) = "open" /\ Owner(it, tries) # Nobody
<1>1. it.status = "leased" /\ it.current \in 1 .. Len(tries)
  BY LenProperties DEF Agree, Typed
<1>2. it.result = "none"
  BY <1>1 DEF Agree
<1>3. Outcome(it) = "open"
  BY <1>1, <1>2 DEF Outcome
<1>4. tries[it.current] \in AttemptRecord
  BY <1>1, LenProperties DEF Typed
<1>5. tries[it.current].worker \in Workers
  BY <1>4 DEF AttemptRecord
<1>6. Owner(it, tries) # Nobody
  BY <1>5, NobodyAssumption DEF Owner
<1> QED
  BY <1>1, <1>3, <1>6

LEMMA ExpiryPromised ==
  ASSUME NEW it, NEW tries, Typed(it, tries), Agree(it, tries),
         NEW it2, it2 = Released(it, tries), NEW tries2, tries2 = Expired(tries)
  PROVE  \/ Keeps(it, tries, it2, tries2)
         \/ GivesBack(it, tries, it2, tries2) /\ IsLost(it, tries)
<1>1. /\ Len(tries2) = Len(tries)
      /\ \A n \in 1 .. Len(tries) : /\ tries2[n].worker = tries[n].worker
                                    /\ ~Lapsed(tries[n]) => tries2[n] = tries[n]
  BY ExpiredRows DEF Typed
<1>2. TriedBy(tries2) = TriedBy(tries)
  BY <1>1, SameTried
<1>3. it \in ItemRecord
  BY DEF Typed
<1>4. CASE CurrentLapsed(it, tries)
  <2>1. it.current # 0 /\ tries[it.current].lapsed
    BY <1>4, LenProperties DEF CurrentLapsed, Lapsed, Typed
  <2>2. Outcome(it) = "open" /\ Owner(it, tries) # Nobody /\ it.status = "leased"
    BY <2>1, LeasedIsOwned
  <2>3. it2.status = "pending" /\ it2.current = 0 /\ it2.result = it.result
    BY <1>3, <1>4, ReleasedRow
  <2>4. it.result = "none"
    BY <2>2 DEF Agree
  <2>5. Outcome(it2) = "open" /\ Owner(it2, tries2) = Nobody /\ ~IsLost(it2, tries2)
    BY <2>3, <2>4 DEF Outcome, Owner, IsLost
  <2> QED
    BY <1>2, <2>1, <2>2, <2>5 DEF GivesBack, IsLost
<1>5. CASE ~CurrentLapsed(it, tries)
  <2>1. it2 = it
    BY <1>3, <1>5, ReleasedRow
  <2>2. it.current # 0 => tries2[it.current] = tries[it.current]
    <3>1. it.current # 0 => it.current \in 1 .. Len(tries)
      BY LeasedIsOwned
    <3> QED
      BY <1>1, <1>5, <3>1 DEF CurrentLapsed
  <2> QED
    BY <1>2, <2>1, <2>2 DEF Keeps, Owner, IsLost
<1> QED
  BY <1>4, <1>5

LEMMA ClaimPromised ==
  ASSUME NEW it, NEW tries, Typed(it, tries), Agree(it, tries),
         NEW it2, NEW tries2, NEW w \in Workers, IsClaimed(it, tries, it2, tries2, w)
  PROVE  Takes(it, tries, it2, tries2, w)
<1> DEFINE free == Released(it, tries)
           kept == Expired(tries)
<1>1. Typed(free, kept) /\ Agree(free, kept)
  BY ExpiryAgrees
<1>2. \/ Keeps(it, tries, free, kept)
      \/ GivesBack(it, tries, free, kept) /\ IsLost(it, tries)
  BY ExpiryPromised
<1>3. free.status = "pending" /\ ~Excluded(kept, w) /\ Len(kept) = Len(tries)
  BY ExpiredRows DEF IsClaimed, Typed
<1>4. it2 = [free EXCEPT !.status = "leased", !.current = Len(kept) + 1]
        /\ tries2 = Append(kept, NewAttempt(w))
  BY <1>3 DEF IsClaimed
<1> HIDE DEF free, kept
<1>5. free.current = 0 /\ free.result = "none"
  BY <1>1, <1>3 DEF Agree
<1>6. Outcome(free) = "open" /\ Owner(free, kept) = Nobody
  BY <1>3, <1>5 DEF Outcome, Owner
<1>7. NewAttempt(w) \in AttemptRecord /\ NewAttempt(w).worker = w /\ ~NewAttempt(w).lapsed
  BY DEF NewAttempt, AttemptRecord, AttemptStatuses
<1>8. /\ Len(tries2) = Len(kept) + 1 /\ tries2[Len(kept) + 1] = NewAttempt(w)
      /\ \A n \in 1 .. Len(kept) : tries2[n] = kept[n]
  BY <1>1, <1>4, <1>7, AddedAttempt DEF Typed
<1>9. Len(kept) \in Nat /\ free \in ItemRecord
        /\ \A n \in 1 .. Len(kept) : kept[n] \in AttemptRecord
  BY <1>1, LenProperties DEF Typed
<1>10. it2.status = "leased" /\ it2.current = Len(kept) + 1 /\ it2.result = "none"
  BY <1>4, <1>5, <1>9 DEF ItemRecord
<1>11. it2.current # 0
  BY <1>9, <1>10
<1>12. Outcome(it2) = "open" /\ Owner(it2, tries2) = w /\ ~IsLost(it2, tries2)
  BY <1>7, <1>8, <1>10, <1>11 DEF Outcome, Owner, IsLost
<1>13. w \notin TriedBy(kept)
  <2>1. \A n \in 1 .. Len(kept) : kept[n].status \notin {"leased", "completed"}
    BY <1>1, <1>5, <1>9 DEF Agree
  <2>2. \A n \in 1 .. Len(kept) : kept[n].status \in {"failed", "expired"}
    BY <1>9, <2>1 DEF AttemptRecord, AttemptStatuses
  <2> QED
    BY <1>3, <2>2 DEF Excluded, TriedBy
<1>14. TriedBy(tries2) = TriedBy(kept) \cup {w}
  <2>1. 1 .. Len(tries2) = (1 .. Len(kept)) \cup {Len(kept) + 1}
    BY <1>8, <1>9
  <2>2. TriedBy(tries2) = {tries2[n].worker : n \in 1 .. Len(kept)} \cup {w}
    BY <1>7, <1>8, <2>1 DEF TriedBy
  <2> QED
    BY <1>8, <2>2 DEF TriedBy
<1> QED
  BY <1>2, <1>6, <1>12, <1>13, <1>14 DEF Takes, Keeps, GivesBack

LEMMA LapsePromised ==
  ASSUME NEW it, NEW tries, Typed(it, tries), Agree(it, tries), NEW it2, NEW tries2,
         NEW n \in 1 .. Len(tries), Lapses(it, tries, it2, tries2, n)
  PROVE  Loses(it, tries, it2, tries2)
<1> DEFINE a == [tries[n] EXCEPT !.lapsed = TRUE]
<1>1. tries[n] \in AttemptRecord /\ Len(tries) \in Nat /\ n # 0
  BY LenProperties DEF Typed
<1>2. a \in AttemptRecord /\ a.lapsed /\ a.worker = tries[n].worker
  BY <1>1 DEF AttemptRecord
<1>3. tries2 = [tries EXCEPT ![n] = a] /\ it2 = it
  BY DEF Lapses
<1> HIDE DEF a
<1>4. /\ Len(tries2) = Len(tries)
      /\ \A m \in 1 .. Len(tries) : tries2[m] = IF m = n THEN a ELSE tries[m]
  BY <1>2, <1>3, ChangedAttempt DEF Typed
<1>5. TriedBy(tries2) = TriedBy(tries)
  BY <1>2, <1>4, SameTried
<1>6. it.current = n
  BY DEF Agree, Lapses
<1>7. Outcome(it) = "open" /\ Owner(it, tries) # Nobody
  BY <1>1, <1>6, LeasedIsOwned
<1>8. ~tries[n].lapsed /\ tries2[n].lapsed /\ tries2[n].worker = tries[n].worker
  BY <1>2, <1>4 DEF Lapses
<1> QED
  BY <1>1, <1>3, <1>5, <1>6, <1>7, <1>8 DEF Loses, Owner, IsLost

LEMMA FinishPromised ==
  ASSUME NEW it, NEW tries, Typed(it, tries), Agree(it, tries), NEW it2, NEW tries2,
         NEW n \in 1 .. Len(tries), Finishes(it, tries, it2, tries2, n)
  PROVE  GivesBack(it, tries, it2, tries2) \/ Decides(it, tries, it2, tries2)
<1>1. PICK outcome \in {"completed", "failed"}, status \in {"pending", "completed", "failed"},
           result \in {"none", "review"} :
        /\ (outcome = "completed") <=> (status = "completed")
        /\ (outcome = "completed") <=> (result = "review")
        /\ tries2 = [tries EXCEPT ![n].status = outcome]
        /\ it2 = IF it.current = n
                  THEN [status |-> status, current |-> 0, result |-> result] ELSE it
  BY DEF Finishes
<1> DEFINE a == [tries[n] EXCEPT !.status = outcome]
<1>2. tries[n] \in AttemptRecord /\ Len(tries) \in Nat /\ n # 0
  BY LenProperties DEF Typed
<1>3. a \in AttemptRecord /\ a.worker = tries[n].worker
  BY <1>2 DEF AttemptRecord, AttemptStatuses
<1>4. tries2 = [tries EXCEPT ![n] = a]
  BY <1>1
<1> HIDE DEF a
<1>5. /\ Len(tries2) = Len(tries)
      /\ \A m \in 1 .. Len(tries) : tries2[m] = IF m = n THEN a ELSE tries[m]
  BY <1>3, <1>4, ChangedAttempt DEF Typed
<1>6. TriedBy(tries2) = TriedBy(tries)
  BY <1>3, <1>5, SameTried
<1>7. it.current = n /\ ~tries[n].lapsed
  BY DEF Agree, Finishes
<1>8. Outcome(it) = "open" /\ Owner(it, tries) # Nobody /\ ~IsLost(it, tries)
  BY <1>2, <1>7, LeasedIsOwned DEF IsLost
<1>9. it2 = [status |-> status, current |-> 0, result |-> result]
  BY <1>1, <1>7
<1>10. Owner(it2, tries2) = Nobody /\ ~IsLost(it2, tries2)
  BY <1>9 DEF Owner, IsLost
<1>11. Outcome(it2) \in {"open", "reviewed", "failed"}
  BY <1>1, <1>9 DEF Outcome
<1> QED
  BY <1>6, <1>8, <1>10, <1>11 DEF GivesBack, Decides

LEMMA ReopenPromised ==
  ASSUME NEW it, NEW tries, Agree(it, tries), NEW it2, NEW tries2,
         Reopens(it, tries, it2, tries2)
  PROVE  ReopensOrCloses(it, tries, it2, tries2)
<1>1. it.status = "failed" /\ it.current = 0 /\ it.result = "none" /\ tries2 = tries
  BY DEF Reopens, Agree
<1>2. it2.current = 0 /\ Outcome(it2) \in {"open", "unreviewable"}
  BY DEF Reopens, Outcome
<1>3. Outcome(it) = "failed"
  BY <1>1 DEF Outcome
<1> QED
  BY <1>1, <1>2, <1>3 DEF ReopensOrCloses, Owner, IsLost

LEMMA RowStepPromised ==
  ASSUME NEW it, NEW tries, NEW it2, NEW tries2,
         Typed(it, tries), Agree(it, tries), RowStep(it, tries, it2, tries2)
  PROVE  PromisedStep(it, tries, it2, tries2)
<1>1. CASE it2 = it /\ tries2 = tries
  BY <1>1 DEF PromisedStep, Keeps
<1>2. CASE Expires(it, tries, it2, tries2)
  BY <1>2, ExpiryPromised DEF Expires, PromisedStep
<1>3. ASSUME NEW w \in Workers, IsClaimed(it, tries, it2, tries2, w)
      PROVE  PromisedStep(it, tries, it2, tries2)
  BY <1>3, ClaimPromised DEF PromisedStep
<1>4. ASSUME NEW n \in 1 .. Len(tries),
             Lapses(it, tries, it2, tries2, n) \/ Finishes(it, tries, it2, tries2, n)
      PROVE  PromisedStep(it, tries, it2, tries2)
  BY <1>4, LapsePromised, FinishPromised DEF PromisedStep
<1>5. CASE Reopens(it, tries, it2, tries2)
  BY <1>5, ReopenPromised DEF PromisedStep
<1> QED
  BY <1>1, <1>2, <1>3, <1>4, <1>5 DEF RowStep

LEMMA PromiseStarts == Init => Promise!Init
<1> SUFFICES ASSUME Init PROVE Promise!Init
  OBVIOUS
<1>1. ASSUME NEW i \in Items
      PROVE  /\ Owner(item[i], attempts[i]) = Nobody /\ ~IsLost(item[i], attempts[i])
             /\ TriedBy(attempts[i]) = {} /\ Outcome(item[i]) = "open"
  <2>1. item[i] = [status |-> "pending", current |-> 0, result |-> "none"]
    BY DEF Init
  <2>2. attempts[i] = <<>>
    BY DEF Init
  <2>3. 1 .. Len(attempts[i]) = {}
    BY <2>2
  <2> QED
    BY <2>1, <2>3 DEF Owner, IsLost, TriedBy, Outcome
<1> QED
  BY <1>1 DEF Promise!Init, ownerOf, lostOf, triedOf, outcomeOf

LEMMA PromiseSteps == IInv /\ [Next]_vars => [Promise!Next]_(Promise!vars)
<1> SUFFICES ASSUME IInv, [Next]_vars PROVE Promise!Next
  OBVIOUS
<1>1. MovesRows
  BY StepMovesRows DEF IInv
<1>2. ASSUME NEW i \in Items PROVE Promise!ItemStep(i)
  <2>1. PromisedStep(item[i], attempts[i], item'[i], attempts'[i])
    BY <1>1, RowStepPromised DEF IInv, TypeOK, RowsAgree, Typed, MovesRows
  <2>2. /\ ownerOf[i] = Owner(item[i], attempts[i])
        /\ ownerOf'[i] = Owner(item'[i], attempts'[i])
    BY DEF ownerOf, Owner
  <2>3. /\ i \in lostOf <=> IsLost(item[i], attempts[i])
        /\ i \in lostOf' <=> IsLost(item'[i], attempts'[i])
    BY DEF lostOf, IsLost
  <2>4. /\ triedOf[i] = TriedBy(attempts[i]) /\ triedOf'[i] = TriedBy(attempts'[i])
    BY DEF triedOf, TriedBy
  <2>5. /\ outcomeOf[i] = Outcome(item[i]) /\ outcomeOf'[i] = Outcome(item'[i])
    BY DEF outcomeOf, Outcome
  <2> QED
    BY <2>1, <2>2, <2>3, <2>4, <2>5
    DEF PromisedStep, Keeps, Takes, GivesBack, Loses, Decides, ReopensOrCloses,
        Promise!ItemStep, Promise!Keeps, Promise!Take, Promise!GiveBack, Promise!Lose,
        Promise!Decide, Promise!ReopenOrClose, Promise!Undecided
<1> QED
  BY <1>2 DEF Promise!Next

(* The ledger and its workers keep the promise of ReviewPromise: one owner *)
(* at a time, who decides only while its lease is good, no worker twice,   *)
(* and a decision that stands.                                             *)
THEOREM PromiseIsKept == Spec => PromiseKept
BY PromiseStarts, PromiseSteps, Invariance, PTL DEF Spec, PromiseKept, Promise!Spec
=============================================================================
