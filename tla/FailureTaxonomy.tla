--------------------------- MODULE FailureTaxonomy ---------------------------
(***************************************************************************)
(* The failure vocabulary of Mission Hub and what it decides: which class  *)
(* a failure code belongs to, whether the retry policy of a job re-queues  *)
(* a failed run, how an incident is classified, and what evidence a        *)
(* recovery attempt must hold.  Pure data and pure operators; the tables   *)
(* are config/mission_hub/failure_codes.toml and retry_policies.toml.      *)
(***************************************************************************)
EXTENDS Naturals

(* Codes by failure class.  "provider_credential_missing" stands for the   *)
(* code provider_capability_unavailable with a message that names a        *)
(* missing credential, which capture_failure_db tells apart.               *)
OperationalTransient ==
  {"transport_unavailable", "resource_temporarily_unavailable", "deployment_stale",
   "disk_write_failed", "process_interrupted", "lease_expired"}
CapabilityTransient ==
  {"provider_rate_limited", "provider_capability_unavailable", "provider_credential_missing",
   "local_model_capability_unavailable", "provider_timeout"}
RepairableOutput ==
  {"provider_empty_output", "provider_output_truncated", "structured_response_invalid",
   "output_schema_invalid"}
DeterministicSpecification ==
  {"artifact_contract_invalid", "artifact_corrupt", "configuration_invalid",
   "checkpoint_mismatch", "dependency_missing", "job_spec_invalid",
   "unexpected_internal_error"}
SafetyPolicy    == {"safety_policy_refused"}
ExternalOutcome == {"validation_threshold_not_met", "operator_cancelled"}

FailureCodes ==
  OperationalTransient \cup CapabilityTransient \cup RepairableOutput
    \cup DeterministicSpecification \cup SafetyPolicy \cup ExternalOutcome

RetryableCodes ==
  (OperationalTransient \ {"deployment_stale"}) \cup CapabilityTransient \cup RepairableOutput

Transient == OperationalTransient \cup CapabilityTransient

(* The retry policies: the codes a policy retries (by class), the          *)
(* execution attempts it allows and the repair attempts it budgets.        *)
RetryPolicy ==
  [never                   |-> [retries |-> {}, executions |-> 1, repairs |-> 0],
   infrastructure_only     |-> [retries |-> OperationalTransient, executions |-> 3, repairs |-> 1],
   operator_after_evidence |-> [retries |-> {}, executions |-> 3, repairs |-> 2],
   classified              |-> [retries |-> Transient \cup RepairableOutput,
                                executions |-> 4, repairs |-> 2]]
Policies == DOMAIN RetryPolicy

(* Whether finish_run puts the job of a failed run back in the queue: the  *)
(* n-th run of a job whose definition allows `maxAttempts' runs.           *)
RetriedOnBudget(code, policy, n, maxAttempts) == n < maxAttempts  \* fault: any code is retried
RetryScheduled(code, policy, n, maxAttempts) ==
  /\ code \in RetryableCodes \cap RetryPolicy[policy].retries
  /\ code # "disk_write_failed"
  /\ n < maxAttempts
  /\ n < RetryPolicy[policy].executions

-----------------------------------------------------------------------------
Categories == {"transient", "infrastructure", "configuration", "contract", "software",
               "safety", "external"}
Blockers   == {"none", "safety_invariant_refused", "non_repairable_task_outcome",
               "unavailable_credentials", "atomic_unit_retry_budget_exhausted",
               "repair_budget_exhausted", "operator_cancelled", "human_authority"}

Verdict(category, allowed, blocker) ==
  [category |-> category, allowed |-> allowed, blocker |-> blocker]

(* classify_failure: category, whether machine repair is allowed, blocker. *)
ClassifyFailure(code, terminal) ==
  CASE code \in Transient /\ ~terminal ->
         Verdict("transient", FALSE, "none")
    [] code \in Transient \ {"provider_timeout"} /\ terminal ->
         Verdict("infrastructure", TRUE, "none")
    [] code = "configuration_invalid" ->
         Verdict("configuration", TRUE, "none")
    [] code \in {"output_schema_invalid", "artifact_contract_invalid", "artifact_corrupt",
                 "checkpoint_mismatch"} ->
         Verdict("contract", TRUE, "none")
    [] code \in SafetyPolicy ->
         Verdict("safety", FALSE, "safety_invariant_refused")
    [] code \in ExternalOutcome ->
         Verdict("external", FALSE, "non_repairable_task_outcome")
    [] OTHER ->  \* also a provider_timeout that ends its job
         Verdict("software", TRUE, "none")

(* A terminal failure of an atomic content unit that a retry might have    *)
(* fixed: its execution budget is spent and no repair is allowed.          *)
AtomicBudgetSpent(code, atomic) ==
  atomic /\ code \in RetryableCodes /\ code # "disk_write_failed"

(* The verdict recorded on a new incident, after both overrides.           *)
IncidentVerdict(code, terminal, atomic) ==
  LET base == ClassifyFailure(code, terminal) IN
  IF code = "provider_credential_missing"
    THEN Verdict("external", FALSE, "unavailable_credentials")
  ELSE IF terminal /\ AtomicBudgetSpent(code, atomic)
    THEN Verdict(base.category, FALSE, "atomic_unit_retry_budget_exhausted")
  ELSE base

-----------------------------------------------------------------------------
Strategies == {"none", "deterministic_retry", "principal_authorized_repair",
               "local_resource_restored_retry"}
ActionKinds == {"evidence_preserved", "mutation", "tests", "deployment",
                "job_retry", "artifact_validation", "health_check"}

(* The succeeded action kinds an attempt must hold before its job may be   *)
(* retried, and before its incident may close.                             *)
RequiredBeforeRetry(category, strategy) ==
  IF category = "transient" \/ strategy \in {"deterministic_retry", "local_resource_restored_retry"}
    THEN {"evidence_preserved", "job_retry"}
    ELSE {"evidence_preserved", "mutation", "tests", "deployment"}
RequiredByCategory(category, strategy) ==  \* fault: the strategy is ignored
  RequiredBeforeRetry(category, "none") \cup {"job_retry", "artifact_validation", "health_check"}
RequiredToClose(category, strategy) ==
  RequiredBeforeRetry(category, strategy)
    \cup {"job_retry", "artifact_validation", "health_check"}
=============================================================================
