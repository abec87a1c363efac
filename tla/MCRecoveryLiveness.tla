------------------------- MODULE MCRecoveryLiveness -------------------------
(* Liveness above the ledger: a disk recovery, or messages to the on-call. *)
EXTENDS MCMissionRecovery

CONSTANTS n1, o1

VARIABLES part, setting, row, answering, other, switch, work, rested, tick, trouble

messageVars == <<setting, row, answering, other, switch, work, rested, tick, trouble>>

Setting(posted, actions, broken, most) ==
  [posted |-> posted, actions |-> actions, broken |-> broken, trouble |-> most]

(* A notice alone and a message of the operator alone about failed work,   *)
(* or both and nothing to repair.                                          *)
Messaging == INSTANCE OperationalResponse WITH
  Messages <- {n1, o1}, Notices <- {n1}, Slots <- 2, MaxAttempts <- 1,
  Settings <- {Setting({n1}, {"retry", "repair"}, TRUE, 0),
               Setting({o1}, {"allow", "pause"}, TRUE, 1),
               Setting({n1, o1}, {"none"}, FALSE, 0)},
  job <- answering, pipeline <- switch, hub <- tick

LivenessInit ==
  /\ part \in {"disk", "messages"} /\ RecoveryInit /\ Messaging!Init
  /\ part = "disk" => ~setting.broken

LivenessNext ==
  /\ UNCHANGED part
  /\ \/ part = "disk" /\ RecoveryNext /\ UNCHANGED messageVars
     \/ part = "messages" /\ Messaging!Next /\ UNCHANGED recoveryVars

(* The part that is not chosen stays where it began, where nothing of it   *)
(* is due.                                                                 *)
LivenessSpec ==
  /\ LivenessInit /\ [][LivenessNext]_<<part, recoveryVars, messageVars>>
  /\ RecoveryFairness /\ Messaging!Fairness

MessagesAnswered == Messaging!MessagesAnswered
=============================================================================
