--------------------------- MODULE MCMissionLedger ---------------------------
(* Small instances of MissionLedger for TLC. *)
EXTENDS MissionLedgerRefinement

Work(kind, campaign, maxAttempts, policy) ==
  [kind |-> kind, requested |-> Machines, executors |-> Machines, campaign |-> campaign,
   approval |-> FALSE, workflow |-> FALSE, maxAttempts |-> maxAttempts, policy |-> policy,
   providers |-> {}, priority |-> 1]

(* Every lane on the one machine. *)
OneMachine == [l \in Lanes |-> CHOOSE m \in Machines : TRUE]
Allow1 == [m \in Machines |-> 1]
Allow2 == [m \in Machines |-> 2]

(* An atomic content unit and a training job with their campaign. *)
UnitAndTraining ==
  [j \in Jobs |-> IF j = "unit" THEN Work("atomic", TRUE, 2, "classified")
                  ELSE [Work("training", TRUE, 1, "operator_after_evidence")
                          EXCEPT !.approval = TRUE]]
NoProvider == [p \in Providers |-> 1]

(* The hub serving an on-call response beside ordinary work that an active *)
(* workflow keeps waiting, two at a time, on a provider that takes one     *)
(* call.                                                                   *)
HubWork ==
  [j \in Jobs |->
     IF j = "respond" THEN [Work("respond", FALSE, 2, "classified")
                              EXCEPT !.providers = Providers, !.priority = 2]
     ELSE [Work("ordinary", TRUE, 1, "classified")
             EXCEPT !.providers = Providers, !.workflow = TRUE]]
=============================================================================
